---------------------------- MODULE Spec2Model ----------------------------
(***************************************************************************)
(* Model of bevy_replicate: the entity identity registry                   *)
(* (network_entity.rs), the sequence ring buffer (sequence_buffer.rs),     *)
(* the frame codec (network_frame.rs) and the receive path (client.rs).    *)
(*                                                                         *)
(* Option<T> is modelled as a sequence: None is << >>, Some(v) is <<v>>.   *)
(* A bit stream is a sequence of 0/1, most significant bit first.          *)
(***************************************************************************)
EXTENDS Integers, Sequences, FiniteSets, TLC

None == << >>
Some(v) == <<v>>
is_some(o) == o # << >>
unwrap(o) == o[1]

Min(S) == CHOOSE x \in S : \A y \in S : x <= y

Pow2(n) == 2 ^ n

(***************************************************************************)
(* Bounds of the model.                                                    *)
(***************************************************************************)
\* Width of the identity domain; the source sets 12 (4096 ids).  The model
\* scales the domain down, every size below is derived from it as in the source.
ID_BITS == 2
\* Longest entity list of a frame drawn for the codec.
MaxEntities == 2
\* Slots of the ring buffers of the model (the source defaults to 60).
Capacity == 2
\* Highest sequence number handed to the ring buffer operations.
MaxSeq == 5
\* Highest wall-clock instant of the receive path, in steps of TimeStep.
MaxTime == 2
\* Highest wall-clock instant of the playback, in steps of TimeStep.
MaxSteps == 10

(***************************************************************************)
(* bit_serializer primitives: BitWriter appends to a bit sequence, the     *)
(* BitReader is a position in one.  A read returns [ok, val, pos].         *)
(***************************************************************************)
\* BitWriter::write_bits(value, bits): `bits` bits, big-endian.
RECURSIVE write_bits(_, _)
write_bits(value, bits) ==
    IF bits = 0 THEN << >> ELSE Append(write_bits(value \div 2, bits - 1), value % 2)

write_bool(b) == << IF b THEN 1 ELSE 0 >>

RECURSIVE BitsValue(_, _, _)
BitsValue(stream, pos, n) ==
    IF n = 0 THEN 0
    ELSE 2 * BitsValue(stream, pos, n - 1) + stream[pos + n]

\* Mutant: an error carries its kind only.
Err_kind_only(kind, msg) == [ok |-> FALSE, kind |-> kind, msg |-> ""]

\* io::Error: its ErrorKind and its message.
Err(kind, msg) == [ok |-> FALSE, kind |-> kind, msg |-> msg]

Eof(pos) == Err("UnexpectedEof", "failed to fill whole buffer")

\* BitReader::read_bits(bits): fails when the stream is too short.
read_bits(stream, pos, bits) ==
    IF pos + bits > Len(stream) THEN Eof(pos)
    ELSE [ok |-> TRUE, val |-> BitsValue(stream, pos, bits), pos |-> pos + bits]

read_bool(stream, pos) ==
    LET r == read_bits(stream, pos, 1)
    IN  IF r.ok THEN [ok |-> TRUE, val |-> (r.val = 1), pos |-> r.pos] ELSE r

\* Byte-oriented varint: 7 payload bits per byte, the high bit says "more".
RECURSIVE write_varint(_)
write_varint(value) ==
    IF value < 128 THEN write_bits(value, 8)
    ELSE write_bits(128 + (value % 128), 8) \o write_varint(value \div 128)

RECURSIVE read_varint_from(_, _, _, _, _)
read_varint_from(stream, pos, acc, shift, bytes_left) ==
    LET b == read_bits(stream, pos, 8)
    IN  IF ~b.ok THEN b
        ELSE LET v == acc + (b.val % 128) * Pow2(shift)
             IN  IF b.val < 128 THEN [ok |-> TRUE, val |-> v, pos |-> b.pos]
                 ELSE IF bytes_left = 1
                      THEN Err("InvalidData", "varint too long")
                      ELSE read_varint_from(stream, b.pos, v, shift + 7, bytes_left - 1)

\* A u64 takes at most 10 bytes, a u16 at most 3 and must fit 16 bits.
read_varint_u64(stream, pos) == read_varint_from(stream, pos, 0, 0, 10)

read_varint_u16(stream, pos) ==
    LET r == read_varint_from(stream, pos, 0, 0, 3)
    IN  IF r.ok /\ r.val >= Pow2(16)
        THEN Err("InvalidData", "varint out of range")
        ELSE r

\* BitWriter::consume: the stream is padded with zero bits to a whole byte.
consume(stream) == stream \o [i \in 1..((8 - (Len(stream) % 8)) % 8) |-> 0]

(***************************************************************************)
(* sequence_buffer.rs: SequenceBuffer<T> is the record [sequences, data],  *)
(* two arrays indexed 0..capacity-1.                                       *)
(***************************************************************************)
with_capacity(capacity) ==
    [sequences |-> [i \in 0..(capacity - 1) |-> None],
     data      |-> [i \in 0..(capacity - 1) |-> None]]

size(self) == Cardinality(DOMAIN self.sequences)

index_of(self, sequence) == sequence % Cardinality(DOMAIN self.data)

contains(self, sequence) == self.sequences[index_of(self, sequence)] = Some(sequence)

\* Mutant: the slot's payload is returned without comparing its tag.
get_any_tag(self, sequence) == self.data[index_of(self, sequence)]

get(self, sequence) ==
    LET index == index_of(self, sequence)
    IN  IF self.sequences[index] = Some(sequence) THEN self.data[index] ELSE None

\* Mutant: the insert is dropped when the slot holds a greater sequence number.
insert_monotonic(self, sequence, value) ==
    LET index == index_of(self, sequence)
    IN  IF is_some(self.sequences[index]) /\ unwrap(self.sequences[index]) > sequence
        THEN self
        ELSE [sequences |-> [self.sequences EXCEPT ![index] = Some(sequence)],
              data      |-> [self.data EXCEPT ![index] = Some(value)]]

insert(self, sequence, value) ==
    LET index == index_of(self, sequence)
    IN  [sequences |-> [self.sequences EXCEPT ![index] = Some(sequence)],
         data      |-> [self.data EXCEPT ![index] = Some(value)]]

get_or_insert(self, sequence, value) ==
    IF contains(self, sequence) THEN self ELSE insert(self, sequence, value)

\* Mutant: the payload is taken and the tag is left.
remove_data_only(self, sequence) ==
    [sequences |-> self.sequences,
     data      |-> [self.data EXCEPT ![index_of(self, sequence)] = None]]

remove(self, sequence) ==
    LET index == index_of(self, sequence)
    IN  [sequences |-> [self.sequences EXCEPT ![index] = None],
         data      |-> [self.data EXCEPT ![index] = None]]

\* for index in start_idx..=end_idx { self.remove(index as u64) }
RECURSIVE remove_each(_, _, _)
remove_each(self, index, end_idx) ==
    IF index > end_idx THEN self
    ELSE remove_each(remove(self, index), index + 1, end_idx)

remove_range(self, start, end) ==
    LET start_idx == index_of(self, start)
        end_idx   == index_of(self, end)
    IN  IF end_idx < start_idx
        THEN remove_each(self, start_idx, end_idx)
        ELSE [sequences |-> [i \in DOMAIN self.sequences |-> None],
              data      |-> [i \in DOMAIN self.data |-> None]]

(***************************************************************************)
(* network_entity.rs: the identity domain.                                 *)
(***************************************************************************)
MAX_ID == Pow2(ID_BITS) - 1
MAX_LENGTH == Pow2(ID_BITS)

\* NetworkEntities::default()
NetworkEntities_default ==
    [used       |-> [i \in 0..(MAX_LENGTH - 1) |-> FALSE],
     entity_map |-> << >>,
     current_id |-> 0]

\* Mutant: a plain round-robin counter that never consults the bitmap.
generate_round_robin(self) ==
    LET id == self.current_id % MAX_LENGTH
    IN  [kind |-> "Some", id |-> id,
         self |-> [self EXCEPT !.used[id] = TRUE, !.current_id = (id + 1) % MAX_LENGTH]]

\* The loop of generate from its `count`-th pass on.  Indexing `used` at or
\* beyond MAX_LENGTH is an out-of-bounds panic.
RECURSIVE generate_loop(_, _)
generate_loop(self, count) ==
    IF self.current_id \notin DOMAIN self.used
    THEN [kind |-> "panic", id |-> 0, self |-> self]
    ELSE IF ~self.used[self.current_id]
    THEN [kind |-> "Some", id |-> self.current_id % Pow2(16),
          self |-> [self EXCEPT !.used[self.current_id] = TRUE,
                                !.current_id = self.current_id + 1]]
    ELSE LET wrapped == IF self.current_id % Pow2(16) > MAX_ID
                        THEN [self EXCEPT !.current_id = 0] ELSE self
         IN  IF count + 1 >= MAX_LENGTH
             THEN [kind |-> "None", id |-> 0, self |-> wrapped]
             ELSE generate_loop(wrapped, count + 1)

\* NetworkEntities::generate: the outcome (Some(id), None or a panic) and the
\* registry it leaves.
generate(self) == generate_loop(self, 0)

\* NetworkEntities::remove(entity)
NetworkEntities_remove(self, entity) ==
    IF entity \in DOMAIN self.entity_map
    THEN [self EXCEPT
            !.entity_map = [e \in DOMAIN self.entity_map \ {entity} |-> self.entity_map[e]],
            !.used[self.entity_map[entity]] = FALSE]
    ELSE self

\* One pass of track_network_entity_system over an entity that was given
\* the component network_id.
track_network_entity(self, entity, network_id) ==
    [self EXCEPT !.entity_map =
        [e \in DOMAIN self.entity_map \cup {entity} |->
            IF e = entity THEN network_id ELSE self.entity_map[e]]]

(***************************************************************************)
(* network_frame.rs: the frame codec.  A frame of network_frame!(Simple)   *)
(* is the record [tick, entities, simple]; entities is a sequence of ids,  *)
(* simple a sequence of Option<u32>.                                       *)
(***************************************************************************)
FullChange == 0
NoComponent == 1
NoChange == 2
DeltaChange == 3

\* Bits of one NetworkID on the wire.
NETWORK_ID_BITS == 12

abs_diff(a, b) == IF a >= b THEN a - b ELSE b - a

\* The component codec of the crate's tests: Simple(u32).
Simple_can_delta(old, new) == abs_diff(new, old) < 32

Simple_write_full(component) == write_bits(component, 32)

Simple_read_full(stream, pos) == read_bits(stream, pos, 32)

Simple_write_delta(old, new) ==
    write_bool(new > old) \o write_bits(abs_diff(new, old), 5)

\* old.0 - diff is a u32 subtraction: below zero it aborts a build with
\* overflow checks, reported here as the error kind "Overflow".  The values
\* of the model stay far below 2^32, so old.0 + diff cannot overflow.
Simple_read_delta(old, stream, pos) ==
    LET sign == read_bool(stream, pos)
    IN  IF ~sign.ok THEN sign
        ELSE LET diff == read_bits(stream, sign.pos, 5)
             IN  IF ~diff.ok THEN diff
                 ELSE LET value == IF sign.val THEN old + diff.val ELSE old - diff.val
                      IN  IF value < 0
                          THEN Err("Overflow", "attempt to subtract with overflow")
                          ELSE [ok |-> TRUE, val |-> value, pos |-> diff.pos]

RECURSIVE Flatten(_)
Flatten(seqs) == IF seqs = << >> THEN << >> ELSE Head(seqs) \o Flatten(Tail(seqs))

write_frame_header(tick, delta_tick, entities) ==
    write_bool(is_some(delta_tick))
    \o (IF is_some(delta_tick) THEN write_varint(unwrap(delta_tick)) ELSE << >>)
    \o write_varint(tick)
    \o write_varint(Len(entities) % Pow2(16))
    \o Flatten([i \in 1..Len(entities) |-> write_bits(entities[i], NETWORK_ID_BITS)])

RECURSIVE read_network_ids(_, _, _, _)
read_network_ids(stream, pos, len, entities) ==
    IF len = 0 THEN [ok |-> TRUE, val |-> entities, pos |-> pos]
    ELSE LET network_id == read_bits(stream, pos, NETWORK_ID_BITS)
         IN  IF ~network_id.ok THEN network_id
             ELSE read_network_ids(stream, network_id.pos, len - 1,
                                   Append(entities, network_id.val))

\* Mutant: a count equal to the domain size is rejected too.
length_at_limit(len) == len >= MAX_LENGTH

\* len > network_entity::MAX_LENGTH
length_above_limit(len) == len > MAX_LENGTH

\* Ok(FrameHeader {tick, delta_tick, entities}) or the first error.
read_frame_header(stream, pos) ==
    LET is_delta == read_bool(stream, pos)
    IN  IF ~is_delta.ok THEN is_delta
        ELSE
        LET delta_tick == IF is_delta.val THEN read_varint_u64(stream, is_delta.pos)
                          ELSE [ok |-> TRUE, pos |-> is_delta.pos]
        IN  IF ~delta_tick.ok THEN delta_tick
            ELSE
            LET tick == read_varint_u64(stream, delta_tick.pos)
            IN  IF ~tick.ok THEN tick
                ELSE
                LET len == read_varint_u16(stream, tick.pos)
                IN  IF ~len.ok THEN len
                    ELSE IF length_above_limit(len.val)
                    THEN Err("InvalidData", "network entities length above limit")
                    ELSE
                    LET entities == read_network_ids(stream, len.pos, len.val, << >>)
                    IN  IF ~entities.ok THEN entities
                        ELSE [ok  |-> TRUE,
                              val |-> [tick       |-> tick.val,
                                       delta_tick |-> IF is_delta.val
                                                      THEN Some(delta_tick.val)
                                                      ELSE None,
                                       entities   |-> entities.val],
                              pos |-> entities.pos]

\* Mutant: each presence bit is followed at once by its value.
write_full_component_interleaved(components) ==
    Flatten([i \in 1..Len(components) |->
               write_bool(is_some(components[i]))
               \o (IF is_some(components[i])
                   THEN Simple_write_full(unwrap(components[i])) ELSE << >>)])

\* One presence bit per entity, then the full encoding of every present value.
write_full_component(components) ==
    Flatten([i \in 1..Len(components) |-> write_bool(is_some(components[i]))])
    \o Flatten([i \in 1..Len(components) |->
                  IF is_some(components[i])
                  THEN Simple_write_full(unwrap(components[i])) ELSE << >>])

RECURSIVE read_full_values(_, _, _, _, _)
read_full_values(stream, pos, has_components, i, components) ==
    IF i > Len(has_components) THEN [ok |-> TRUE, val |-> components, pos |-> pos]
    ELSE IF has_components[i]
         THEN LET component == Simple_read_full(stream, pos)
              IN  IF ~component.ok THEN component
                  ELSE read_full_values(stream, component.pos, has_components, i + 1,
                                        Append(components, Some(component.val)))
         ELSE read_full_values(stream, pos, has_components, i + 1,
                               Append(components, None))

read_full_component(stream, pos, entities_len) ==
    IF pos + entities_len > Len(stream) THEN Eof(pos)
    ELSE read_full_values(stream, pos + entities_len,
                          [i \in 1..entities_len |-> stream[pos + i] = 1], 1, << >>)

\* Mutant: an entity missing from the previous list is mapped too, to the
\* first position.
generate_delta_mapping_total(previous_entities, current_entities) ==
    [new \in {current_entities[i] : i \in 1..Len(current_entities)} |->
        IF \E p \in 1..Len(previous_entities) : previous_entities[p] = new
        THEN Min({p \in 1..Len(previous_entities) : previous_entities[p] = new})
        ELSE 1]

\* HashMap<NetworkID, usize>: each current entity found in the previous list
\* is mapped to its first position there (positions count from 1 here).
generate_delta_mapping(previous_entities, current_entities) ==
    [new \in {current_entities[i] : i \in 1..Len(current_entities)}
             \cap {previous_entities[i] : i \in 1..Len(previous_entities)}
        |-> Min({p \in 1..Len(previous_entities) : previous_entities[p] = new})]

\* Mutant: the reference value is taken at the entity's own position.
previous_component_by_position(entities, previous_components, delta_mapping, i) ==
    IF entities[i] \in DOMAIN delta_mapping /\ i <= Len(previous_components)
    THEN previous_components[i]
    ELSE None

\* Mutant: an entity missing from the mapping is compared with the first
\* previous component.
previous_component_or_first(entities, previous_components, delta_mapping, i) ==
    IF entities[i] \in DOMAIN delta_mapping
    THEN previous_components[delta_mapping[entities[i]]]
    ELSE IF Len(previous_components) > 0 THEN previous_components[1] ELSE None

\* delta_mapping.get(&entities[i]).and_then(|index| previous_components[*index])
previous_component(entities, previous_components, delta_mapping, i) ==
    IF entities[i] \in DOMAIN delta_mapping
    THEN previous_components[delta_mapping[entities[i]]]
    ELSE None

\* Mutant: delta-eligibility is tested before equality.
component_change_delta_first(previous, current) ==
    IF ~is_some(current) THEN NoComponent
    ELSE IF ~is_some(previous) THEN FullChange
    ELSE IF Simple_can_delta(unwrap(previous), unwrap(current)) THEN DeltaChange
    ELSE IF unwrap(previous) = unwrap(current) THEN NoChange
    ELSE FullChange

\* Mutant: a changed value is always written in full.
component_change_never_delta(previous, current) ==
    IF ~is_some(current) THEN NoComponent
    ELSE IF ~is_some(previous) THEN FullChange
    ELSE IF unwrap(previous) = unwrap(current) THEN NoChange
    ELSE FullChange

\* The match of write_delta_component, in its order.
component_change(previous, current) ==
    IF ~is_some(current) THEN NoComponent
    ELSE IF ~is_some(previous) THEN FullChange
    ELSE IF unwrap(previous) = unwrap(current) THEN NoChange
    ELSE IF Simple_can_delta(unwrap(previous), unwrap(current)) THEN DeltaChange
    ELSE FullChange

\* The `changes` vector of write_delta_component.
delta_changes(entities, current_components, previous_components, delta_mapping) ==
    [i \in 1..Len(current_components) |->
        component_change(
            previous_component(entities, previous_components, delta_mapping, i),
            current_components[i])]

\* Mutant: an unchanged value is written in full again.
delta_payload_unchanged_too(change, previous, current) ==
    IF change = FullChange \/ (change = NoChange /\ is_some(current))
    THEN Simple_write_full(unwrap(current))
    ELSE IF change = DeltaChange
         THEN Simple_write_delta(unwrap(previous), unwrap(current))
         ELSE << >>

\* What the second loop of write_delta_component writes for one entity.
delta_payload(change, previous, current) ==
    IF change = FullChange THEN Simple_write_full(unwrap(current))
    ELSE IF change = DeltaChange
         THEN Simple_write_delta(unwrap(previous), unwrap(current))
         ELSE << >>

write_delta_component(entities, current_components, previous_components, delta_mapping) ==
    LET changes == delta_changes(entities, current_components,
                                 previous_components, delta_mapping)
    IN  Flatten([i \in 1..Len(changes) |-> write_bits(changes[i], 2)])
        \o Flatten([i \in 1..Len(changes) |->
              delta_payload(changes[i],
                  previous_component(entities, previous_components, delta_mapping, i),
                  current_components[i])])

RECURSIVE read_delta_values(_, _, _, _, _, _, _)
read_delta_values(stream, pos, changes, entities, previous_components, delta_mapping, components) ==
    LET i == Len(components) + 1
    IN  IF i > Len(changes) THEN [ok |-> TRUE, val |-> components, pos |-> pos]
        ELSE IF changes[i] = FullChange
        THEN LET component == Simple_read_full(stream, pos)
             IN  IF ~component.ok THEN component
                 ELSE read_delta_values(stream, component.pos, changes, entities,
                          previous_components, delta_mapping,
                          Append(components, Some(component.val)))
        ELSE IF changes[i] = NoComponent
        THEN read_delta_values(stream, pos, changes, entities, previous_components,
                               delta_mapping, Append(components, None))
        ELSE IF entities[i] \notin DOMAIN delta_mapping
        THEN Err("InvalidData", "Component not found in delta mapping")
        ELSE IF changes[i] = NoChange
        THEN read_delta_values(stream, pos, changes, entities, previous_components,
                 delta_mapping,
                 Append(components, previous_components[delta_mapping[entities[i]]]))
        ELSE LET previous == previous_components[delta_mapping[entities[i]]]
             IN  IF ~is_some(previous)
                 THEN Err("InvalidData", "Component for delta encoding not found")
                 ELSE LET component == Simple_read_delta(unwrap(previous), stream, pos)
                      IN  IF ~component.ok THEN component
                          ELSE read_delta_values(stream, component.pos, changes,
                                   entities, previous_components, delta_mapping,
                                   Append(components, Some(component.val)))

read_delta_component(stream, pos, entities, previous_components, delta_mapping) ==
    IF pos + 2 * Len(entities) > Len(stream) THEN Eof(pos)
    ELSE read_delta_values(stream, pos + 2 * Len(entities),
             [i \in 1..Len(entities) |-> BitsValue(stream, pos + 2 * (i - 1), 2)],
             entities, previous_components, delta_mapping, << >>)

write_full_frame(self) ==
    write_frame_header(self.tick, None, self.entities)
    \o write_full_component(self.simple)

write_delta_frame(self, delta_frame) ==
    write_frame_header(self.tick, Some(delta_frame.tick), self.entities)
    \o write_delta_component(self.entities, self.simple, delta_frame.simple,
           generate_delta_mapping(delta_frame.entities, self.entities))

\* read_frame(reader, world): frame_buffer is the buffer of the world's
\* SnapshotInterpolationBuffer.  Ok(frame) is [ok, val]; an error is Err.
read_frame(stream, frame_buffer) ==
    LET header == read_frame_header(stream, 0)
    IN  IF ~header.ok THEN header
        ELSE IF is_some(header.val.delta_tick)
        THEN LET delta_frame == get(frame_buffer, unwrap(header.val.delta_tick))
             IN  IF ~is_some(delta_frame)
                 THEN Err("InvalidData", "Delta frame not available")
                 ELSE
                 LET simple == read_delta_component(stream, header.pos,
                                   header.val.entities, unwrap(delta_frame).simple,
                                   generate_delta_mapping(unwrap(delta_frame).entities,
                                                          header.val.entities))
                 IN  IF ~simple.ok THEN simple
                     ELSE [ok  |-> TRUE,
                           val |-> [tick     |-> header.val.tick,
                                    entities |-> header.val.entities,
                                    simple   |-> simple.val]]
        ELSE LET simple == read_full_component(stream, header.pos,
                                               Len(header.val.entities))
             IN  IF ~simple.ok THEN simple
                 ELSE [ok  |-> TRUE,
                       val |-> [tick     |-> header.val.tick,
                                entities |-> header.val.entities,
                                simple   |-> simple.val]]

(***************************************************************************)
(* client.rs: the receive path.  Durations are whole milliseconds.         *)
(***************************************************************************)
\* ReplicateClientPlugin::default(): 20 ticks per second, 100 ms of delay.
DEFAULT_TICK_RATE == 20
DEFAULT_PLAYOUT_DELAY == 100

\* SnapshotInterpolationBuffer::new
new(buffer_capacity, playout_delay, send_rate) ==
    [start_time               |-> 0,
     start_tick               |-> 0,
     playout_delay            |-> playout_delay,
     stopped                  |-> TRUE,
     interpolating            |-> FALSE,
     tick_rate                |-> send_rate,
     interpolation_start_tick |-> 0,
     interpolation_end_tick   |-> 0,
     interpolation_start_time |-> 0,
     interpolation_end_time   |-> 0,
     tick_duration            |-> 1000 \div send_rate,
     buffer                   |-> with_capacity(buffer_capacity)]

add_snapshot(self, current_time, snapshot) ==
    LET anchored == IF self.stopped
                    THEN [self EXCEPT !.start_tick = snapshot.tick,
                                      !.start_time = current_time,
                                      !.stopped = FALSE]
                    ELSE self
    IN  [anchored EXCEPT !.buffer = insert(self.buffer, snapshot.tick, snapshot)]

(***************************************************************************)
(* f32 arithmetic, as far as update uses it.  A value is m * 2^e with      *)
(* m = 0 or 2^23 <= m < 2^24 (24 significant bits); every operation rounds *)
(* to nearest, ties to even.                                               *)
(***************************************************************************)
F32_HIDDEN_BIT == Pow2(23)

F32_ZERO == [m |-> 0, e |-> 0]

F32_ONE == [m |-> F32_HIDDEN_BIT, e |-> -23]

\* n / d rounded to the nearest integer, ties to even.
div_nearest_even(n, d) ==
    LET q == n \div d
        r == n % d
    IN  IF 2 * r > d \/ (2 * r = d /\ q % 2 = 1) THEN q + 1 ELSE q

RECURSIVE excess_bits(_)
\* The number of bits n has beyond 24.
excess_bits(n) == IF n < 2 * F32_HIDDEN_BIT THEN 0 ELSE 1 + excess_bits(n \div 2)

RECURSIVE f32_round(_, _)
\* The f32 nearest to n * 2^e, n >= 0.
f32_round(n, e) ==
    IF n = 0 THEN F32_ZERO
    ELSE IF n < F32_HIDDEN_BIT THEN f32_round(2 * n, e - 1)
    ELSE IF n >= 2 * F32_HIDDEN_BIT
    THEN f32_round(div_nearest_even(n, Pow2(excess_bits(n))), e + excess_bits(n))
    ELSE [m |-> n, e |-> e]

RECURSIVE seconds_scale(_)
\* The j that brings millis * 2^j / 125 into 2^23 .. 2^24.
seconds_scale(millis) ==
    IF millis >= 125 * F32_HIDDEN_BIT THEN 0 ELSE 1 + seconds_scale(2 * millis)

\* Duration::as_secs_f32: the seconds of a duration of whole milliseconds,
\* below 2^21 seconds, as an f32.
as_secs_f32(millis) ==
    IF millis = 0 THEN F32_ZERO
    ELSE f32_round(div_nearest_even(millis * Pow2(seconds_scale(millis)), 125),
                   0 - seconds_scale(millis) - 3)

\* a <= b
f32_le(a, b) ==
    IF a.m = 0 THEN TRUE
    ELSE IF b.m = 0 THEN FALSE
    ELSE a.e < b.e \/ (a.e = b.e /\ a.m <= b.m)

\* a - b for a >= b
f32_sub(a, b) ==
    IF b.m = 0 THEN a
    ELSE LET e == Min({a.e, b.e})
         IN  f32_round(a.m * Pow2(a.e - e) - b.m * Pow2(b.e - e), e)

\* NetworkInterpolation(0.)
NetworkInterpolation_default == [nan |-> FALSE, num |-> F32_ZERO, den |-> F32_ONE]

\* (fract / whole).clamp(0.0, 1.0) for fract = time - start and
\* whole = end - start, start <= end: the quotient is kept as the pair of
\* its terms, 0 / 0 is NaN and clamp leaves NaN as it is, x / 0 is infinite
\* and clamps to 1.
interpolation_value(time, start, end) ==
    LET whole == f32_sub(end, start)
        fract == IF f32_le(start, time) THEN f32_sub(time, start) ELSE F32_ZERO
    IN  IF whole.m = 0 /\ fract.m = 0 /\ f32_le(start, time)
        THEN [nan |-> TRUE, num |-> F32_ZERO, den |-> F32_ZERO]
        ELSE IF fract.m = 0 THEN NetworkInterpolation_default
        ELSE IF f32_le(whole, fract)
        THEN [nan |-> FALSE, num |-> F32_ONE, den |-> F32_ONE]
        ELSE [nan |-> FALSE, num |-> fract, den |-> whole]

\* n = floor(playout_delay * tick_rate), the delay window in ticks.
delay_window(self) == (self.playout_delay * self.tick_rate) \div 1000

\* The loop `for i in 1..=n` of update: the lowest i whose tick is in the
\* buffer (Option).
next_sample(self, n) ==
    LET found == {i \in 1..n : is_some(get(self.buffer, self.interpolation_start_tick + i))}
    IN  IF found = {} THEN None ELSE Some(Min(found))

\* Mutant: the highest sample of the window is taken.
update_bracket_latest(self, time) ==
    IF time >= self.interpolation_end_time
    THEN LET from == [self EXCEPT
                        !.interpolation_start_tick = self.interpolation_end_tick,
                        !.interpolation_start_time = self.interpolation_end_time]
             found == {i \in 1..delay_window(self) :
                          is_some(get(from.buffer, from.interpolation_start_tick + i))}
         IN  IF found = {} THEN [self |-> from, applied |-> None]
             ELSE LET i == CHOOSE x \in found : \A y \in found : y <= x
                  IN [self |-> [from EXCEPT
                          !.interpolation_end_tick = from.interpolation_start_tick + i,
                          !.interpolation_end_time =
                              from.interpolation_start_time + from.tick_duration * i],
                      applied |-> get(from.buffer, from.interpolation_start_tick + i)]
    ELSE [self |-> self, applied |-> None]

\* update, lines 166-180: when playback time has reached the end of the
\* bracket, a new bracket starts at the old end; the snapshot found is the
\* one passed to apply_in_world.
update_bracket(self, time) ==
    IF time >= self.interpolation_end_time
    THEN LET from == [self EXCEPT
                        !.interpolation_start_tick = self.interpolation_end_tick,
                        !.interpolation_start_time = self.interpolation_end_time]
             i == next_sample(from, delay_window(self))
         IN  IF is_some(i)
             THEN [self |-> [from EXCEPT
                      !.interpolation_end_tick = from.interpolation_start_tick + unwrap(i),
                      !.interpolation_end_time =
                          from.interpolation_start_time + from.tick_duration * unwrap(i)],
                   applied |-> get(from.buffer, from.interpolation_start_tick + unwrap(i))]
             ELSE [self |-> from, applied |-> None]
    ELSE [self |-> self, applied |-> None]

\* Mutant: a stale bracket is kept.
update_stale_kept(self, interpolation_tick) == self

\* Mutant: every call drops the bracket and seeks anew.
update_stale_always(self, interpolation_tick) ==
    [self EXCEPT !.interpolating = FALSE]

\* update, lines 135-141: the bracket is dropped when the target tick is more
\* than n ticks away from its start.
update_stale(self, interpolation_tick) ==
    IF /\ self.interpolating
       /\ abs_diff(interpolation_tick, self.interpolation_start_tick) > delay_window(self)
    THEN [self EXCEPT !.interpolating = FALSE]
    ELSE self

\* Mutant: interpolation is entered on the newest tick not above the target.
update_seek_nearest(self, interpolation_tick, time) ==
    LET below == {t \in 0..interpolation_tick : is_some(get(self.buffer, t))}
    IN  IF ~self.interpolating /\ below # {}
        THEN [self EXCEPT !.interpolation_start_tick = interpolation_tick,
                          !.interpolation_end_tick = interpolation_tick,
                          !.interpolation_start_time = time,
                          !.interpolation_end_time = time,
                          !.interpolating = TRUE]
        ELSE self

\* Mutant: while seeking, the bracket follows the target tick.
update_seek_tracking(self, interpolation_tick, time) ==
    IF self.interpolating THEN self
    ELSE IF is_some(get(self.buffer, interpolation_tick))
    THEN [self EXCEPT !.interpolation_start_tick = interpolation_tick,
                      !.interpolation_end_tick = interpolation_tick,
                      !.interpolation_start_time = time,
                      !.interpolation_end_time = time,
                      !.interpolating = TRUE]
    ELSE [self EXCEPT !.interpolation_start_tick = interpolation_tick,
                      !.interpolation_end_tick = interpolation_tick]

\* update, lines 143-153: interpolation is entered on a frame of the target
\* tick.  frames_since_start.div_f64(tick_rate) is the playback time.
update_seek(self, interpolation_tick, time) ==
    IF ~self.interpolating /\ is_some(get(self.buffer, interpolation_tick))
    THEN [self EXCEPT !.interpolation_start_tick = interpolation_tick,
                      !.interpolation_end_tick = interpolation_tick,
                      !.interpolation_start_time = time,
                      !.interpolation_end_time = time,
                      !.interpolating = TRUE]
    ELSE self

\* update, lines 155-192, on the state the seek left: what is applied to the
\* world and the fraction written to NetworkInterpolation (Options).
update_interpolate(self, playback_time) ==
    IF ~self.interpolating
    THEN [self |-> self, applied |-> None, fraction |-> None, path |-> "seeking",
          stale |-> FALSE, entered |-> FALSE]
    ELSE LET time == IF playback_time < self.interpolation_start_time
                     THEN self.interpolation_start_time ELSE playback_time
             next == update_bracket(self, time)
         IN  IF time >= next.self.interpolation_end_time
             THEN [self |-> next.self, applied |-> next.applied, fraction |-> None,
                   path |-> "past_end", stale |-> FALSE, entered |-> FALSE]
             ELSE [self |-> next.self, applied |-> next.applied,
                   fraction |-> Some(interpolation_value(
                                   as_secs_f32(time),
                                   as_secs_f32(next.self.interpolation_start_time),
                                   as_secs_f32(next.self.interpolation_end_time))),
                   path |-> "interpolating", stale |-> FALSE, entered |-> FALSE]

\* Mutant: playback starts with the first frame, without the delay.
playback_time_undelayed(self, current_time) ==
    IF current_time >= self.start_time THEN Some(current_time - self.start_time) ELSE None

\* current_time.checked_sub(self.start_time + self.playout_delay)
playback_time(self, current_time) ==
    IF current_time >= self.start_time + self.playout_delay
    THEN Some(current_time - (self.start_time + self.playout_delay))
    ELSE None

\* floor(time * tick_rate) + start_tick
target_tick(self, time) ==
    (time \div 1000) * self.tick_rate + ((time % 1000) * self.tick_rate) \div 1000
       + self.start_tick

\* update from line 155 on; `fresh` is the state after the stale test and
\* `sought` the state after the seek.  `stale` and `entered` record whether
\* this call dropped the bracket and whether it entered interpolation.
update_from_seek(self, fresh, sought, time) ==
    [update_interpolate(sought, time) EXCEPT
        !.stale = self.interpolating /\ ~fresh.interpolating,
        !.entered = ~fresh.interpolating /\ sought.interpolating]

\* update from line 135 on, `time` being the playback time.
update_from_stale(self, fresh, interpolation_tick, time) ==
    update_from_seek(self, fresh, update_seek(fresh, interpolation_tick, time), time)

\* update from line 133 on.
update_started(self, time) ==
    update_from_stale(self, update_stale(self, target_tick(self, time)),
                      target_tick(self, time), time)

\* SnapshotInterpolationBuffer::update(current_time, world): the buffer it
\* leaves, its effects on the world and the path it took.
update(self, current_time) ==
    IF self.stopped
    THEN [self |-> self, applied |-> None, fraction |-> None, path |-> "stopped",
          stale |-> FALSE, entered |-> FALSE]
    ELSE IF ~is_some(playback_time(self, current_time))
    THEN [self |-> self, applied |-> None, fraction |-> None, path |-> "early",
          stale |-> FALSE, entered |-> FALSE]
    ELSE update_started(self, unwrap(playback_time(self, current_time)))

(***************************************************************************)
(* lib.rs: the receiver that keeps a ClientInfo.  Its durations are in     *)
(* microseconds.                                                           *)
(***************************************************************************)
\* ClientInfo { tick_duration: from_secs_f64(1. / tick_rate),
\*              desired_delay: from_millis(100), ..default() }
ClientInfo_new(tick_rate) ==
    [tick_duration         |-> 1000000 \div tick_rate,
     desired_delay         |-> 100 * 1000,
     last_received_tick    |-> None,
     last_applied_tick     |-> None,
     current_playback_time |-> 0,
     desired_playback_time |-> 0]

\* Duration::saturating_sub
saturating_sub(a, b) == IF a > b THEN a - b ELSE 0

\* Duration::as_millis
as_millis(micros) == micros \div 1000

RECURSIVE iter_from(_, _, _)
\* Iter::next called until it returns None: the items from `current` on.
iter_from(self, start, current) ==
    IF current < start + size(self)
    THEN IF contains(self, current)
         THEN <<unwrap(get(self, current))>> \o iter_from(self, start, current + 1)
         ELSE iter_from(self, start, current + 1)
    ELSE << >>

\* The tags held, whatever their slots.
sequences_held(self) ==
    {unwrap(self.sequences[i]) : i \in {j \in DOMAIN self.sequences : is_some(self.sequences[j])}}

\* SequenceBuffer::iter, collected: the iteration starts at the lowest tag
\* held (0 when there is none) and visits `size` sequence numbers.
iter(self) ==
    LET current == IF sequences_held(self) = {} THEN 0 ELSE Min(sequences_held(self))
    IN  iter_from(self, current, current)

\* The clock factor of update_info, in hundredths.
scale_of(info) ==
    IF info.desired_playback_time > info.current_playback_time THEN 102
    ELSE IF abs_diff(as_millis(info.desired_playback_time),
                     as_millis(info.current_playback_time)) < 8
    THEN 100
    ELSE 98

\* Duration::mul_f64 with a factor given in hundredths.
mul_f64(micros, hundredths) == (micros * hundredths) \div 100

\* update_info, lines 155-179: the desired playback time follows the last
\* received tick, the current playback time moves on by the scaled delta.
update_info_clock(info, delta) ==
    LET desired == [info EXCEPT !.desired_playback_time =
                       IF is_some(info.last_received_tick)
                       THEN saturating_sub(unwrap(info.last_received_tick)
                                              * info.tick_duration,
                                           info.desired_delay)
                       ELSE info.desired_playback_time]
    IN  [info  |-> [desired EXCEPT !.current_playback_time =
                       desired.current_playback_time + mul_f64(delta, scale_of(desired))],
         scale |-> scale_of(desired)]

\* snapshot_times.partition_point(|(_, time)| *time < current_playback_time)
\* on a list sorted by time: the number of snapshots before the playback time.
partition_point(snapshot_times, current) ==
    Cardinality({i \in DOMAIN snapshot_times : snapshot_times[i].time < current})

\* update_info, lines 181-207 on a buffer that is not empty: the tick to
\* apply and the value of TickInterpolation, kept as the two terms of the
\* quotient fract / whole.
update_info_select(info, snapshot_times) ==
    LET i == partition_point(snapshot_times, info.current_playback_time)
    IN  IF i = 0
        THEN [tick |-> snapshot_times[1].tick, interpolation |-> [num |-> 0, den |-> 1]]
        ELSE IF i = Len(snapshot_times)
        THEN [tick |-> snapshot_times[i].tick, interpolation |-> [num |-> 0, den |-> 1]]
        ELSE [tick |-> snapshot_times[i + 1].tick,
              interpolation |->
                 [num |-> info.current_playback_time - snapshot_times[i].time,
                  den |-> snapshot_times[i + 1].time - snapshot_times[i].time]]

\* update_info, lines 209-222: the selected frame is applied unless it is the
\* one applied last.  buffer.get(tick).unwrap() panics on None.
update_info_apply(world, selected) ==
    IF world.info.last_applied_tick # Some(selected.tick)
    THEN IF is_some(get(world.buffer, selected.tick))
         THEN [world EXCEPT !.info.last_applied_tick = Some(selected.tick),
                            !.tick_interpolation = selected.interpolation,
                            !.applied = get(world.buffer, selected.tick),
                            !.applies = TRUE]
         ELSE [world EXCEPT !.info.last_applied_tick = Some(selected.tick),
                            !.tick_interpolation = selected.interpolation,
                            !.panicked = TRUE]
    ELSE [world EXCEPT !.tick_interpolation = selected.interpolation]

\* update_info from line 181 on: the clock has moved.
update_info_frames(world, snapshot_times) ==
    IF Len(snapshot_times) = 0 THEN world
    ELSE update_info_apply(world, update_info_select(world.info, snapshot_times))

\* update_info(world) with time.delta() = delta.  `scale` is the factor the
\* call used, `applies` tells whether it applied a frame, `panicked`
\* whether it panicked.
update_info(world, delta) ==
    update_info_frames(
        [world EXCEPT !.info = update_info_clock(world.info, delta).info,
                      !.scale = update_info_clock(world.info, delta).scale,
                      !.applies = FALSE],
        [i \in 1..Len(iter(world.buffer)) |->
            [tick |-> iter(world.buffer)[i].tick,
             time |-> iter(world.buffer)[i].tick * world.info.tick_duration]])

\* Mutant: the last received tick is the tick of the frame decoded last.
process_snap_store_latest(snapshot, world) ==
    IF ~snapshot.ok THEN [result |-> snapshot, world |-> world]
    ELSE [result |-> [ok |-> TRUE],
          world  |-> [world EXCEPT
             !.info.last_received_tick = Some(snapshot.val.tick),
             !.info.current_playback_time =
                 IF is_some(world.info.last_received_tick)
                 THEN world.info.current_playback_time
                 ELSE saturating_sub(world.info.tick_duration * snapshot.val.tick,
                                     world.info.desired_delay),
             !.buffer = insert(world.buffer, snapshot.val.tick, snapshot.val)]]

\* process_snap after read_frame, as process_snapshot_store; the frame is
\* also sent as an event, which nothing here reads.
process_snap_store(snapshot, world) ==
    IF ~snapshot.ok THEN [result |-> snapshot, world |-> world]
    ELSE [result |-> [ok |-> TRUE],
          world  |-> [world EXCEPT
             !.info.last_received_tick =
                 IF is_some(world.info.last_received_tick)
                 THEN IF snapshot.val.tick > unwrap(world.info.last_received_tick)
                      THEN Some(snapshot.val.tick)
                      ELSE world.info.last_received_tick
                 ELSE Some(snapshot.val.tick),
             !.info.current_playback_time =
                 IF is_some(world.info.last_received_tick)
                 THEN world.info.current_playback_time
                 ELSE saturating_sub(world.info.tick_duration * snapshot.val.tick,
                                     world.info.desired_delay),
             !.buffer = insert(world.buffer, snapshot.val.tick, snapshot.val)]]

\* process_snap(buffer, world)
process_snap(payload, world) ==
    process_snap_store(read_frame(payload, world.buffer), world)

(***************************************************************************)
(* The World of the ECS as replication reads and writes it: a map from     *)
(* Entity (its index) to the entity's components, None where no entity     *)
(* lives.  An entity is the record [network_id, simple], each an Option.   *)
(* A query visits the matching entities in storage order, the same order   *)
(* for every query on one state of the World; the model takes the order of *)
(* the indices.                                                            *)
(***************************************************************************)
alive(storage, e) == e \in DOMAIN storage /\ is_some(storage[e])

RECURSIVE query_all(_, _)
\* world.query::<Option<&C>>(): every entity of the World, from index e on.
\* Mutant of query_with_id: the With<NetworkID> filter is missing.
query_all(storage, e) ==
    IF e \notin DOMAIN storage THEN << >>
    ELSE (IF alive(storage, e) THEN <<e>> ELSE << >>) \o query_all(storage, e + 1)

RECURSIVE query_with_id(_, _)
\* world.query::<&NetworkID>() and world.query_filtered::<_, With<NetworkID>>():
\* the entities that carry a NetworkID, from index e on.
query_with_id(storage, e) ==
    IF e \notin DOMAIN storage THEN << >>
    ELSE (IF alive(storage, e) /\ is_some(unwrap(storage[e]).network_id)
          THEN <<e>> ELSE << >>) \o query_with_id(storage, e + 1)

networked_entities(storage) ==
    [i \in 1..Len(query_with_id(storage, 0)) |->
        unwrap(unwrap(storage[query_with_id(storage, 0)[i]]).network_id)]

\* Mutant: the components of every entity, networked or not.
networked_components_unfiltered(storage) ==
    [i \in 1..Len(query_all(storage, 0)) |->
        unwrap(storage[query_all(storage, 0)[i]]).simple]

networked_components(storage) ==
    [i \in 1..Len(query_with_id(storage, 0)) |->
        unwrap(storage[query_with_id(storage, 0)[i]]).simple]

\* NetworkFrame::generate_frame(tick, world)
generate_frame(at_tick, storage) ==
    [tick     |-> at_tick,
     entities |-> networked_entities(storage),
     simple   |-> networked_components(storage)]

(***************************************************************************)
(* server.rs: the producer.  The server is the record [tick, buffer,       *)
(* storage]: NetworkTick, NetworkFrameBuffer and the entities of its World.*)
(***************************************************************************)
\* generate_network_frame(world)
generate_network_frame(server) ==
    [server EXCEPT
        !.buffer = insert(server.buffer, server.tick,
                          generate_frame(server.tick, server.storage))]

\* tick_network(network_tick)
tick_network(server) == [server EXCEPT !.tick = server.tick + 1]

RECURSIVE run_times(_, _, _)
\* A system under FixedTimestep::steps_per_second runs once per step that
\* has elapsed since the stage last ran, back to back.
run_times(system, count, server) ==
    IF count = 0 THEN server
    ELSE run_times(system, count - 1,
                   IF system = "tick_network" THEN tick_network(server)
                   ELSE generate_network_frame(server))

\* One pass of the schedule built by ReplicateServerPlugin::build: the
\* PreUpdate stage runs tick_network, the Update stage after it runs
\* generate_network_frame, each under its own FixedTimestep of one rate and
\* so each once per elapsed step.
run_schedule(elapsed_steps, server) ==
    run_times("generate_network_frame", elapsed_steps,
              run_times("tick_network", elapsed_steps, server))

\* Mutant: replicate never writes a delta.
replicate_full_only(client, at_tick, last_ticks, frames) ==
    IF ~is_some(get(frames, at_tick)) THEN [kind |-> "panic"]
    ELSE [kind    |-> "Ok",
          message |-> consume(write_full_frame(unwrap(get(frames, at_tick))))]

\* Mutant: the delta is against the frame of the tick before, acknowledged
\* or not.
replicate_against_previous(client, at_tick, last_ticks, frames) ==
    IF ~is_some(get(frames, at_tick)) THEN [kind |-> "panic"]
    ELSE IF at_tick > 0 /\ is_some(get(frames, at_tick - 1))
    THEN [kind    |-> "Ok",
          message |-> consume(write_delta_frame(unwrap(get(frames, at_tick)),
                                                unwrap(get(frames, at_tick - 1))))]
    ELSE [kind    |-> "Ok",
          message |-> consume(write_full_frame(unwrap(get(frames, at_tick))))]

\* replicate(client, tick, last_ticks, buffer): the bytes for one client, or
\* the panic of the unwrap when the buffer has no frame under the tick.
\* last_ticks is the map of LastNetworkTick as a function from client id.
replicate(client, at_tick, last_ticks, frames) ==
    IF ~is_some(get(frames, at_tick)) THEN [kind |-> "panic"]
    ELSE IF client \in DOMAIN last_ticks
    THEN IF is_some(get(frames, last_ticks[client]))
         THEN [kind    |-> "Ok",
               message |-> consume(write_delta_frame(
                               unwrap(get(frames, at_tick)),
                               unwrap(get(frames, last_ticks[client]))))]
         ELSE [kind    |-> "Ok",
               message |-> consume(write_full_frame(unwrap(get(frames, at_tick))))]
    ELSE [kind    |-> "Ok",
          message |-> consume(write_full_frame(unwrap(get(frames, at_tick))))]

RECURSIVE update_last_ticks(_, _, _)
\* The first loop of server_sync_players for one client: `inbox` is the
\* sequence of ticks received from it on the unreliable channel.
update_last_ticks(last_ticks, client, inbox) ==
    IF inbox = << >> THEN last_ticks
    ELSE update_last_ticks(
             IF client \notin DOMAIN last_ticks
             THEN last_ticks @@ (client :> Head(inbox))
             ELSE IF last_ticks[client] < Head(inbox)
             THEN [last_ticks EXCEPT ![client] = Head(inbox)]
             ELSE last_ticks,
             client, Tail(inbox))

(***************************************************************************)
(* network_frame!::apply_in_world.  The client is the record [storage,     *)
(* mapping, applications, panicked]: the entities of its World, the        *)
(* NetworkMapping resource (a function from id to Entity), the calls of    *)
(* NetworkedComponent::apply made so far and whether an unwrap failed.     *)
(***************************************************************************)
\* world.despawn(entity)
despawn(storage, e) == IF alive(storage, e) THEN [storage EXCEPT ![e] = None] ELSE storage

\* world.spawn().id(): an index no living entity has; the model takes the
\* lowest.
spawn_id(storage) == Min({e \in DOMAIN storage : ~alive(storage, e)})

\* Mutant: nothing leaves the mapping.
retain_all(self, client) == client

\* mapping.0.retain(..): an id the frame does not list leaves the mapping and
\* its entity is despawned.
retain_listed(self, client) ==
    LET listed == {self.entities[i] : i \in 1..Len(self.entities)}
        kept   == DOMAIN client.mapping \cap listed
    IN  [client EXCEPT
            !.mapping = [id \in kept |-> client.mapping[id]],
            !.storage = [e \in DOMAIN client.storage |->
                            IF \E id \in DOMAIN client.mapping \ listed :
                                   client.mapping[id] = e
                            THEN None ELSE client.storage[e]]]

RECURSIVE spawn_listed(_, _, _)
\* The loop that creates the new networked entities, from position i on.
spawn_listed(self, i, client) ==
    IF i > Len(self.entities) THEN client
    ELSE IF self.entities[i] \in DOMAIN client.mapping
    THEN spawn_listed(self, i + 1, client)
    ELSE LET entity_id == spawn_id(client.storage)
         IN  spawn_listed(self, i + 1,
                [client EXCEPT
                    !.storage[entity_id] =
                        Some([network_id |-> Some(self.entities[i]), simple |-> None]),
                    !.mapping = [id \in DOMAIN client.mapping \cup {self.entities[i]} |->
                                    IF id = self.entities[i] THEN entity_id
                                    ELSE client.mapping[id]]])

\* Mutant of apply_components: the value goes to the entity whose index is
\* the position in the frame.
RECURSIVE apply_components_by_position(_, _, _)
apply_components_by_position(self, i, client) ==
    IF i > Len(self.entities) THEN client
    ELSE IF ~is_some(self.simple[i])
    THEN apply_components_by_position(self, i + 1, client)
    ELSE IF ~alive(client.storage, i - 1)
    THEN [client EXCEPT !.panicked = TRUE]
    ELSE apply_components_by_position(self, i + 1,
            [client EXCEPT
                !.storage[i - 1] = Some([unwrap(client.storage[i - 1]) EXCEPT
                                             !.simple = self.simple[i]]),
                !.applications = Append(client.applications,
                                        [entity |-> i - 1,
                                         component |-> unwrap(self.simple[i])])])

RECURSIVE apply_components(_, _, _)
\* The loop that replicates the components, from position i on:
\* mapping.0.get(network_id).unwrap(), world.entity_mut(..), then
\* NetworkedComponent::apply, which inserts a clone of the component.
apply_components(self, i, client) ==
    IF i > Len(self.entities) THEN client
    ELSE IF ~is_some(self.simple[i])
    THEN apply_components(self, i + 1, client)
    ELSE IF self.entities[i] \notin DOMAIN client.mapping
            \/ ~alive(client.storage, client.mapping[self.entities[i]])
    THEN [client EXCEPT !.panicked = TRUE]
    ELSE LET mapped_entity == client.mapping[self.entities[i]]
         IN  apply_components(self, i + 1,
                [client EXCEPT
                    !.storage[mapped_entity] =
                        Some([unwrap(client.storage[mapped_entity]) EXCEPT
                                  !.simple = self.simple[i]]),
                    !.applications = Append(client.applications,
                                            [entity    |-> mapped_entity,
                                             component |-> unwrap(self.simple[i])])])

\* self.apply_in_world(world)
apply_in_world(self, client) ==
    apply_components(self, 1, spawn_listed(self, 1, retain_listed(self, client)))

(***************************************************************************)
(* State.                                                                  *)
(***************************************************************************)
VARIABLES
    \* codec harness: the frame to send, its reference, BitWriter::bits_written,
    \* the bytes on the wire (Option), the result of read_frame (Option) and
    \* the last writer call
    frame, delta_frame, bits_written, wire, decoded, codec_op,
    \* decode harness: the fields of a message built by hand (see Message)
    received,
    \* receiver world: SnapshotInterpolationBuffer, LastReceivedNetworkTick,
    \* Time::time_since_startup, the result of the last process_snapshot
    interpolation_buffer, last_received_tick, time_since_startup, process_result,
    \* the world of the playback: the snapshot last passed to apply_in_world
    \* (Option), the NetworkInterpolation resource as a fraction, what the last
    \* update did
    applied, network_interpolation, update_result,
    \* ring buffer harness: a SequenceBuffer<T>, the last call on it and the
    \* call before, and two histories of the insert calls (see below)
    buffer, buffer_op, buffer_prev_op, pending, last_written,
    \* the end of the range of the last remove_range, the items of the last iter
    ring_op,
    \* identity registry: the NetworkEntities resource, the outcome of the last
    \* generate call, whether the process has panicked, and the history: live
    \* allocations per id, ids handed out and not yet on an entity, ids
    \* released and not handed out again, generate calls so far, whether
    \* any id was released
    network_entities, generated, crashed, allocations, unattached, released,
    generate_calls, any_release,
    \* the world of the ClientInfo receiver (lib.rs): ClientInfo, its
    \* NetworkFrameBuffer, TickInterpolation, and what the last update_info did
    client_info, frame_buffer, tick_interpolation, info_result,
    \* replication through a World: the entities of the World, the server's
    \* NetworkTick and NetworkFrameBuffer, the history of the production (the
    \* ticks produced and the frames generated for the latest of them), the
    \* client's NetworkMapping, the calls of NetworkedComponent::apply made by
    \* the last apply_in_world, whether it panicked
    ecs, network_tick, server_buffer, production, network_mapping, applications,
    world_panicked,
    \* host and client over the transport: the host's LastNetworkTick and what
    \* its last replicate call did, the two unreliable channels, and the ticks
    \* of the frames process_snapshot has decoded so far
    host, link, decoded_ticks

codec_vars == <<frame, delta_frame, bits_written, wire, decoded, codec_op, received>>
client_vars == <<interpolation_buffer, last_received_tick, time_since_startup,
                 process_result, applied, network_interpolation, update_result>>
buffer_vars == <<buffer, buffer_op, buffer_prev_op, pending, last_written, ring_op>>
registry_vars == <<network_entities, generated, crashed, allocations, unattached,
                   released, generate_calls, any_release>>
replica_vars == <<ecs, network_tick, server_buffer, production, network_mapping,
                  applications, world_panicked, host, link, decoded_ticks>>
world_vars == <<client_info, frame_buffer, tick_interpolation, info_result, replica_vars>>
vars == <<codec_vars, client_vars, buffer_vars, registry_vars, world_vars>>

(***************************************************************************)
(* Frames of the codec harness.                                            *)
(***************************************************************************)
\* Ids the drawn frames use: the two lowest and the highest of the domain.
FrameIds == {0, 1, MAX_ID}
\* 10 -> 16 is delta-eligible (difference below 32), 10 -> 100 is not.
SimpleValues == {10, 16, 100}
Components == {None} \cup {Some(v) : v \in SimpleValues}
\* The values of a reference: a frame's value is the same, 6 away (in either
\* direction, delta-eligible) or further away (not delta-eligible).
ReferenceComponents == {None, Some(10), Some(16)}
\* 199 and 200 take two varint bytes, 0 and 1 take one.
ReferenceTicks == {0, 199}

SeqsUpTo(S, n) == UNION {[1..k -> S] : k \in 0..n}

IsInjective(s) == \A i, j \in 1..Len(s) : s[i] = s[j] => i = j

IsAscending(s) == \A i, j \in 1..Len(s) : i < j => s[i] < s[j]

\* Entity lists as the producer builds them: one entry per networked entity.
EntityLists == {s \in SeqsUpTo(FrameIds, MaxEntities) : IsInjective(s)}

FramesAt(tick) ==
    UNION {{[tick |-> tick, entities |-> e, simple |-> c] : c \in [1..Len(e) -> Components]}
           : e \in EntityLists}

(***************************************************************************)
(* Initial values of the parts a specification leaves alone.               *)
(***************************************************************************)
EmptyFrame == [tick |-> 0, entities |-> << >>, simple |-> << >>]

\* No message was built by hand.
NoMessage == [delta_tick |-> None, len |-> 0, ids |-> 0, changes |-> << >>, cut |-> 0]

IdleCodec ==
    /\ frame = EmptyFrame
    /\ delta_frame = EmptyFrame
    /\ bits_written = 0
    /\ wire = None
    /\ decoded = None
    /\ codec_op = "new"
    /\ received = NoMessage

NoCall == [kind |-> "new", seq |-> 0]

NoRing == [end |-> 0, items |-> << >>]

IdleBuffer ==
    /\ buffer = with_capacity(Capacity)
    /\ buffer_op = NoCall
    /\ buffer_prev_op = NoCall
    /\ ring_op = NoRing
    /\ pending = {}
    /\ last_written = [i \in 0..(Capacity - 1) |-> None]

IdleRegistry ==
    /\ network_entities = NetworkEntities_default
    /\ generated = [kind |-> "new", id |-> 0]
    /\ crashed = FALSE
    /\ allocations = [i \in 0..MAX_ID |-> 0]
    /\ unattached = {}
    /\ released = {}
    /\ generate_calls = 0
    /\ any_release = FALSE

(***************************************************************************)
(* Codec harness: draw a frame and a reference, encode, decode.            *)
(***************************************************************************)
\* ReplicateClientPlugin::build of lib.rs: ClientInfo with the two durations
\* set and the rest default, an empty buffer, TickInterpolation(0.).
InitInfo ==
    /\ client_info = ClientInfo_new(DEFAULT_TICK_RATE)
    /\ frame_buffer = with_capacity(Capacity)
    /\ tick_interpolation = [num |-> 0, den |-> 1]
    /\ info_result = None

\* The entities a World may hold: one that is not replicated, and one per
\* entity of a frame.
WorldEntities == 0..MaxEntities

\* A World with one entity, which carries no NetworkID: a camera, say.
LocalOnly ==
    [e \in WorldEntities |->
        IF e = 0 THEN Some([network_id |-> None, simple |-> Some(100)]) ELSE None]

NoProduction == [ticks |-> {}, frames |-> << >>]

\* No apply_in_world yet: no call of NetworkedComponent::apply, no id dropped
\* from the mapping and none added to it.
NoApplications == [calls |-> << >>, removed |-> {}, created |-> {}]

\* LastNetworkTick(HashMap::new()), no client connected, no replicate call yet.
NoHost == [clients |-> {}, last_ticks |-> << >>, replicated |-> <<>>, produced |-> << >>]

\* Nothing sent on either channel.
NoLink == [snapshots |-> <<>>, acks |-> <<>>, snapshots_read |-> 0, acks_read |-> 0]

\* ReplicateServerPlugin::build and ReplicateClientPlugin::build: NetworkTick(0),
\* empty buffers, an empty NetworkMapping.
IdleReplica ==
    /\ ecs = LocalOnly
    /\ network_tick = 0
    /\ server_buffer = with_capacity(Capacity)
    /\ production = NoProduction
    /\ network_mapping = << >>
    /\ applications = NoApplications
    /\ world_panicked = FALSE
    /\ host = NoHost
    /\ link = NoLink
    /\ decoded_ticks = {}

\* NetworkInterpolation(0.), no snapshot applied, no update yet.
IdleWorld ==
    /\ applied = None
    /\ network_interpolation = NetworkInterpolation_default
    /\ update_result = None
    /\ InitInfo
    /\ IdleReplica

InitClient ==
    /\ interpolation_buffer = new(Capacity, DEFAULT_PLAYOUT_DELAY, DEFAULT_TICK_RATE)
    /\ last_received_tick = None
    /\ time_since_startup = 0
    /\ process_result = None
    /\ IdleWorld

\* As tests::test_delta sets up its world: the reference is either in the
\* receiver's buffer (added at time zero) or the buffer is empty.  The codec
\* treats ids as opaque keys, so the reference lists its entities in ascending
\* order and the frame ranges over every order relative to it.
InitCodec ==
    /\ \E t \in ReferenceTicks :
         /\ delta_frame \in {f \in FramesAt(t) :
                                /\ IsAscending(f.entities)
                                /\ \A i \in 1..Len(f.simple) : f.simple[i] \in ReferenceComponents}
         /\ frame \in FramesAt(t + 1)
    /\ bits_written = 0
    /\ wire = None
    /\ decoded = None
    /\ codec_op = "new"
    /\ received = NoMessage
    /\ \E held \in BOOLEAN :
         interpolation_buffer =
            IF held
            THEN add_snapshot(new(Capacity, DEFAULT_PLAYOUT_DELAY, DEFAULT_TICK_RATE),
                              0, delta_frame)
            ELSE new(Capacity, DEFAULT_PLAYOUT_DELAY, DEFAULT_TICK_RATE)
    /\ last_received_tick = None
    /\ time_since_startup = 0
    /\ process_result = None
    /\ IdleWorld
    /\ IdleBuffer
    /\ IdleRegistry

WriteFullFrame ==
    /\ codec_op = "new"
    /\ \E written \in {write_full_frame(frame)} :
          /\ bits_written' = Len(written)
          /\ wire' = Some(consume(written))
    /\ codec_op' = "write_full_frame"
    /\ decoded' = None
    /\ UNCHANGED <<world_vars, received, frame, delta_frame, client_vars, buffer_vars, registry_vars>>

WriteDeltaFrame ==
    /\ codec_op = "new"
    /\ \E written \in {write_delta_frame(frame, delta_frame)} :
          /\ bits_written' = Len(written)
          /\ wire' = Some(consume(written))
    /\ codec_op' = "write_delta_frame"
    /\ decoded' = None
    /\ UNCHANGED <<world_vars, received, frame, delta_frame, client_vars, buffer_vars, registry_vars>>

ReadFrame ==
    /\ codec_op \in {"write_full_frame", "write_delta_frame"}
    /\ decoded = None
    /\ decoded' = Some(read_frame(unwrap(wire), interpolation_buffer.buffer))
    /\ UNCHANGED <<world_vars, received, frame, delta_frame, bits_written, wire, codec_op, client_vars,
                   buffer_vars, registry_vars>>

NextCodec == WriteFullFrame \/ WriteDeltaFrame \/ ReadFrame

SpecCodec == InitCodec /\ [][NextCodec]_vars

(***************************************************************************)
(* Ring buffer harness: calls on one SequenceBuffer<T>.                    *)
(*                                                                         *)
(* last_written records, per slot, the last insert call that wrote it.     *)
(* pending, kept by SpecInserts, records what "a later insert on the same  *)
(* slot with a higher or equal sequence number" leaves standing: an insert *)
(* of (s, v) adds it and drops the entries of that slot with a sequence    *)
(* number <= s.                                                            *)
(***************************************************************************)
Seqs == 0..MaxSeq
Values == {"a", "b"}

InitBuffer ==
    /\ IdleBuffer
    /\ IdleCodec
    /\ InitClient
    /\ IdleRegistry

Call(kind, sequence) == [kind |-> kind, seq |-> sequence]

Insert(sequence, value) ==
    /\ buffer' = insert(buffer, sequence, value)
    /\ buffer_op' = Call("insert", sequence)
    /\ last_written' = [last_written EXCEPT ![sequence % Capacity] =
                            Some([seq |-> sequence, val |-> value])]
    /\ UNCHANGED <<world_vars, codec_vars, client_vars, registry_vars>>

GetOrInsert(sequence, value) ==
    /\ buffer' = get_or_insert(buffer, sequence, value)
    /\ buffer_op' = Call("get_or_insert", sequence)
    /\ last_written' = IF contains(buffer, sequence) THEN last_written
                       ELSE [last_written EXCEPT ![sequence % Capacity] =
                                Some([seq |-> sequence, val |-> value])]
    /\ UNCHANGED <<world_vars, codec_vars, client_vars, registry_vars>>

Remove(sequence) ==
    /\ buffer' = remove(buffer, sequence)
    /\ buffer_op' = Call("remove", sequence)
    /\ UNCHANGED <<world_vars, last_written, codec_vars, client_vars, registry_vars>>

RemoveRange(start, end) ==
    /\ buffer' = remove_range(buffer, start, end)
    /\ buffer_op' = Call("remove_range", start)
    /\ UNCHANGED <<world_vars, last_written, codec_vars, client_vars, registry_vars>>

\* buffer.iter().collect()
Iter ==
    /\ buffer_op' = Call("iter", 0)
    /\ UNCHANGED <<world_vars, buffer, last_written, codec_vars, client_vars, registry_vars>>

\* The call before is remembered.
TrackPrev == buffer_prev_op' = buffer_op /\ UNCHANGED ring_op

\* Nothing is remembered of a call but the call.
Untracked == ring_op' = NoRing /\ UNCHANGED <<pending, buffer_prev_op>>

\* The insert of (sequence, value) that a step made, if it made one.
Inserted(sequence, value) ==
    /\ last_written'[sequence % Capacity] = Some([seq |-> sequence, val |-> value])
    /\ buffer_op'.seq = sequence
    /\ \/ buffer_op'.kind = "insert"
       \/ buffer_op'.kind = "get_or_insert" /\ ~contains(buffer, sequence)

TrackPending ==
    IF \E sequence \in Seqs, value \in Values : Inserted(sequence, value)
    THEN \E sequence \in Seqs, value \in Values :
           /\ Inserted(sequence, value)
           /\ pending' = {p \in pending : ~(p.seq % Capacity = sequence % Capacity
                                             /\ p.seq <= sequence)}
                         \cup {[seq |-> sequence, val |-> value]}
    ELSE pending' = pending

NextInserts ==
    \/ \E sequence \in Seqs, value \in Values :
         Insert(sequence, value) /\ TrackPending /\ TrackPrev
    \/ \E sequence \in Seqs, value \in Values :
         GetOrInsert(sequence, value) /\ TrackPending /\ TrackPrev

NextBuffer ==
    \/ \E sequence \in Seqs, value \in Values :
         Insert(sequence, value) /\ UNCHANGED pending /\ TrackPrev
    \/ \E sequence \in Seqs, value \in Values :
         GetOrInsert(sequence, value) /\ UNCHANGED pending /\ TrackPrev
    \/ \E sequence \in Seqs : Remove(sequence) /\ UNCHANGED pending /\ TrackPrev
    \/ \E start \in Seqs, end \in Seqs :
         start <= end /\ RemoveRange(start, end) /\ UNCHANGED pending /\ TrackPrev

\* Every operation of the buffer, iteration included; a range removal is
\* remembered with the end of its range, an iteration with what it yielded.
NextRing ==
    \/ \E sequence \in Seqs, value \in Values : Insert(sequence, value) /\ Untracked
    \/ \E sequence \in Seqs, value \in Values : GetOrInsert(sequence, value) /\ Untracked
    \/ \E sequence \in Seqs : Remove(sequence) /\ Untracked
    \/ \E start \in Seqs, end \in Seqs :
         /\ start <= end
         /\ RemoveRange(start, end)
         /\ ring_op' = [end |-> end, items |-> << >>]
         /\ UNCHANGED <<pending, buffer_prev_op>>
    \/ /\ Iter
       /\ ring_op' = [end |-> 0, items |-> iter(buffer)]
       /\ UNCHANGED <<pending, buffer_prev_op>>

\* Every operation of the buffer.
SpecBuffer == InitBuffer /\ [][NextBuffer]_vars

\* The buffer as the producer and the receiver use it: inserts only.
SpecInserts == InitBuffer /\ [][NextInserts]_vars

SpecRing == InitBuffer /\ [][NextRing]_vars


(***************************************************************************)
(* Identity registry: generate, the tracking system and remove, as the     *)
(* server plugin runs them.  A panic ends the process.                     *)
(***************************************************************************)
Entities == 0..MAX_ID

InitRegistry ==
    /\ IdleRegistry
    /\ IdleCodec
    /\ InitClient
    /\ IdleBuffer

\* A caller asks for an id (server_update_system on ClientConnected).
Generate ==
    /\ ~crashed
    /\ generate_calls <= MAX_LENGTH
    /\ LET result == generate(network_entities)
       IN  /\ network_entities' = result.self
           /\ generated' = [kind |-> result.kind, id |-> result.id]
           /\ crashed' = (result.kind = "panic")
           /\ allocations' = IF result.kind = "Some"
                             THEN [allocations EXCEPT ![result.id] = @ + 1]
                             ELSE allocations
           /\ unattached' = IF result.kind = "Some"
                            THEN unattached \cup {result.id} ELSE unattached
           /\ released' = IF result.kind = "Some"
                          THEN released \ {result.id} ELSE released
    /\ generate_calls' = generate_calls + 1
    /\ UNCHANGED <<world_vars, any_release, codec_vars, client_vars, buffer_vars>>

\* track_network_entity_system sees the entity spawned with an id that
\* generate handed out.  Entity handles are opaque: the model names the
\* entity after the id it was spawned with.
TrackNetworkEntity(network_id) ==
    /\ ~crashed
    /\ network_id \in unattached
    /\ network_id \notin DOMAIN network_entities.entity_map
    /\ network_entities' = track_network_entity(network_entities, network_id, network_id)
    /\ unattached' = unattached \ {network_id}
    /\ UNCHANGED <<world_vars, generated, crashed, allocations, released, generate_calls,
                   any_release, codec_vars, client_vars, buffer_vars>>

\* cleanup_network_entity_system: the entity lost its NetworkID.
RemoveEntity(entity) ==
    /\ ~crashed
    /\ network_entities' = NetworkEntities_remove(network_entities, entity)
    /\ IF entity \in DOMAIN network_entities.entity_map
       THEN /\ allocations' = [allocations EXCEPT
                                 ![network_entities.entity_map[entity]] =
                                     IF @ > 0 THEN @ - 1 ELSE 0]
            /\ released' = released \cup {network_entities.entity_map[entity]}
            /\ any_release' = TRUE
       ELSE UNCHANGED <<world_vars, allocations, released, any_release>>
    /\ UNCHANGED <<world_vars, generated, crashed, unattached, generate_calls,
                   codec_vars, client_vars, buffer_vars>>

NextRegistry ==
    \/ Generate
    \/ \E network_id \in 0..MAX_ID : TrackNetworkEntity(network_id)
    \/ \E entity \in Entities : RemoveEntity(entity)

SpecRegistry == InitRegistry /\ [][NextRegistry]_vars

(***************************************************************************)
(* Decode harness: read_frame on messages that no encoder of this crate    *)
(* wrote: any declared entity count, any change codes, a missing or an     *)
(* aliased reference, a truncated stream.                                  *)
(***************************************************************************)
\* Tick of the hand-built messages.
MessageTick == 2 * Capacity + 1

\* The frames the receiver may hold: a reference at tick 0 whose entity 0 has
\* a value or none, or a frame one lap later in the same slot.
HeldFrames ==
    {[tick |-> 0, entities |-> <<0>>, simple |-> <<Some(10)>>],
     [tick |-> 0, entities |-> <<0>>, simple |-> <<None>>],
     [tick |-> Capacity, entities |-> <<0>>, simple |-> <<Some(10)>>]}

\* A message: the reference tick (Option), the declared entity count, the
\* number of ids that follow (entity i has id i - 1), the change codes of the
\* first entities (the others are NoComponent) and the bytes cut off the end.
Messages ==
    UNION {UNION {{[delta_tick |-> d, len |-> len, ids |-> ids, changes |-> c, cut |-> cut]
                     : c \in [1..Min({ids, MaxEntities}) -> {FullChange, NoComponent, NoChange, DeltaChange}],
                       d \in {None, Some(0), Some(Capacity)},
                       cut \in {0, 1}}
                  : ids \in {0, len}}
           : len \in 0..(MAX_LENGTH + 1)}

\* The change code of entity i of message m.
MessageChange(m, i) == IF i <= Len(m.changes) THEN m.changes[i] ELSE NoComponent

\* The header fields up to and including the declared count.
MessageCountBits(m) ==
    write_bool(is_some(m.delta_tick))
    \o (IF is_some(m.delta_tick) THEN write_varint(unwrap(m.delta_tick)) ELSE << >>)
    \o write_varint(MessageTick)
    \o write_varint(m.len)

\* The bits after the ids: as write_delta_component lays them out (codes, then
\* payloads) for a delta message, as write_full_component for a full one.
MessageBody(m) ==
    IF is_some(m.delta_tick)
    THEN Flatten([i \in 1..m.ids |-> write_bits(MessageChange(m, i), 2)])
         \o Flatten([i \in 1..m.ids |->
               IF MessageChange(m, i) = FullChange THEN Simple_write_full(12)
               ELSE IF MessageChange(m, i) = DeltaChange THEN Simple_write_delta(10, 12)
               ELSE << >>])
    ELSE write_full_component([i \in 1..m.ids |->
               IF MessageChange(m, i) = FullChange THEN Some(12) ELSE None])

\* The bytes of message m.
Message(m) ==
    LET whole == consume(MessageCountBits(m)
                         \o Flatten([i \in 1..m.ids |-> write_bits(i - 1, NETWORK_ID_BITS)])
                         \o MessageBody(m))
    IN  SubSeq(whole, 1, Len(whole) - 8 * m.cut)

InitDecode ==
    /\ received \in Messages
    /\ wire = Some(Message(received))
    /\ \E held \in {None} \cup {Some(f) : f \in HeldFrames} :
         /\ delta_frame = IF is_some(held) THEN unwrap(held) ELSE EmptyFrame
         /\ interpolation_buffer =
              IF is_some(held)
              THEN add_snapshot(new(Capacity, DEFAULT_PLAYOUT_DELAY, DEFAULT_TICK_RATE),
                                0, unwrap(held))
              ELSE new(Capacity, DEFAULT_PLAYOUT_DELAY, DEFAULT_TICK_RATE)
    /\ frame = EmptyFrame
    /\ bits_written = 0
    /\ decoded = None
    /\ codec_op = "received"
    /\ last_received_tick = None
    /\ time_since_startup = 0
    /\ process_result = None
    /\ IdleWorld
    /\ IdleBuffer
    /\ IdleRegistry

\* T::read_frame(&mut reader, world) on the bytes received.
ReadReceived ==
    /\ codec_op = "received"
    /\ decoded = None
    /\ decoded' = Some(read_frame(unwrap(wire), interpolation_buffer.buffer))
    /\ UNCHANGED <<world_vars, received, frame, delta_frame, bits_written, wire, codec_op, client_vars,
                   buffer_vars, registry_vars>>

NextDecode == ReadReceived

SpecDecode == InitDecode /\ [][NextDecode]_vars

(***************************************************************************)
(* Receiver: process_snapshot is called once per message of the snapshot   *)
(* channel, in whatever order the transport delivers them (late and        *)
(* duplicated messages included); the engine advances Time between calls.  *)
(***************************************************************************)
\* Ticks cover two laps of the receiver's ring.
SnapshotTicks == 0..(2 * Capacity - 1)

\* The server's frame of a tick: one entity whose component grows by one per
\* tick, so that a delta against the tick before is a DeltaChange.
SnapshotFrame(tick) ==
    [tick |-> tick, entities |-> <<0>>, simple |-> <<Some(10 + tick)>>]

\* Damaged messages: a delta against tick 0 whose first entity decodes and
\* whose second entity is coded NoChange without being in the reference, a
\* full message cut short inside its value, a count above the limit.
CorruptPayloads ==
    {Message([delta_tick |-> Some(0), len |-> 2, ids |-> 2,
              changes |-> <<FullChange, NoChange>>, cut |-> 0]),
     Message([delta_tick |-> None, len |-> 1, ids |-> 1,
              changes |-> <<FullChange>>, cut |-> 1]),
     Message([delta_tick |-> None, len |-> MAX_LENGTH + 1, ids |-> 0,
              changes |-> << >>, cut |-> 0])}

\* The messages that can arrive: every frame of the server in full, and as
\* a delta against the frame of the tick before, and the damaged ones.
Payloads ==
    {consume(write_full_frame(SnapshotFrame(t))) : t \in SnapshotTicks}
    \cup {consume(write_delta_frame(SnapshotFrame(t), SnapshotFrame(t - 1)))
             : t \in SnapshotTicks \ {0}}
    \cup CorruptPayloads

InitReceiver ==
    /\ InitClient
    /\ IdleCodec
    /\ IdleBuffer
    /\ IdleRegistry

\* Mutant: a failed decode drops what the receiver has buffered.
process_snapshot_store_reset(snapshot, world) ==
    IF ~snapshot.ok
    THEN [result |-> snapshot,
          world  |-> [world EXCEPT !.interpolation_buffer.buffer =
                         with_capacity(size(world.interpolation_buffer.buffer))]]
    ELSE [result |-> [ok |-> TRUE],
          world  |-> [world EXCEPT
             !.last_received_tick = Some(snapshot.val.tick),
             !.interpolation_buffer =
                 add_snapshot(world.interpolation_buffer, world.time_since_startup,
                              snapshot.val)]]

\* process_snapshot after read_frame: `snapshot` is the result of read_frame,
\* `world` the resources the function touches.  An error is returned as it
\* is (the `?`) and leaves the world alone.
process_snapshot_store(snapshot, world) ==
    IF ~snapshot.ok THEN [result |-> snapshot, world |-> world]
    ELSE [result |-> [ok |-> TRUE],
          world  |-> [world EXCEPT
             !.last_received_tick =
                 IF is_some(world.last_received_tick)
                 THEN IF snapshot.val.tick > unwrap(world.last_received_tick)
                      THEN Some(snapshot.val.tick)
                      ELSE world.last_received_tick
                 ELSE Some(snapshot.val.tick),
             !.interpolation_buffer =
                 add_snapshot(world.interpolation_buffer, world.time_since_startup,
                              snapshot.val)]]

\* process_snapshot(buffer, world)
process_snapshot(payload, world) ==
    process_snapshot_store(read_frame(payload, world.interpolation_buffer.buffer), world)

World ==
    [last_received_tick   |-> last_received_tick,
     time_since_startup   |-> time_since_startup,
     interpolation_buffer |-> interpolation_buffer]

ProcessSnapshot(payload) ==
    \E done \in {process_snapshot(payload, World)} :
        /\ process_result' = Some(done.result)
        /\ last_received_tick' = done.world.last_received_tick
        /\ interpolation_buffer' = done.world.interpolation_buffer
        /\ UNCHANGED <<world_vars, time_since_startup, applied, network_interpolation, update_result,
                       codec_vars, buffer_vars, registry_vars>>

\* Milliseconds between two instants of the engine's clock: half a tick at
\* the default rate, so that playback time falls inside brackets too.
TimeStep == 25

\* The engine's Time resource moves on between two calls.
AdvanceTime(steps) ==
    /\ time_since_startup < steps * TimeStep
    /\ time_since_startup' = time_since_startup + TimeStep
    /\ UNCHANGED <<world_vars, interpolation_buffer, last_received_tick, process_result, applied,
                   network_interpolation, update_result,
                   codec_vars, buffer_vars, registry_vars>>

NextReceiver ==
    \/ \E payload \in Payloads : ProcessSnapshot(payload)
    \/ AdvanceTime(MaxTime)

SpecReceiver == InitReceiver /\ [][NextReceiver]_vars

(***************************************************************************)
(* Playback: frames reach add_snapshot in any order, update_frame runs     *)
(* once per frame of the engine, the clock moves on in between.            *)
(***************************************************************************)
PlaybackTicks == 0..MaxSeq

InitPlayback ==
    /\ InitClient
    /\ IdleCodec
    /\ IdleBuffer
    /\ IdleRegistry

\* interpolation_buffer.add_snapshot(current_time, snapshot)
AddSnapshot(tick) ==
    /\ interpolation_buffer' =
          add_snapshot(interpolation_buffer, time_since_startup, SnapshotFrame(tick))
    /\ UNCHANGED <<world_vars, last_received_tick, time_since_startup, process_result, applied,
                   network_interpolation, update_result,
                   codec_vars, buffer_vars, registry_vars>>

\* update_frame(world).  update_result records what the call did, and whether
\* it found the bracket stalled on a single tick.
UpdateFrame ==
    \E done \in {update(interpolation_buffer, time_since_startup)} :
        /\ interpolation_buffer' = done.self
        /\ applied' = IF is_some(done.applied) THEN done.applied ELSE applied
        /\ network_interpolation' =
              IF is_some(done.fraction) THEN unwrap(done.fraction)
              ELSE network_interpolation
        /\ update_result' =
              Some([path |-> done.path, stale |-> done.stale, entered |-> done.entered,
                    applied |-> is_some(done.applied),
                    stalled |-> /\ interpolation_buffer.interpolating
                                /\ interpolation_buffer.interpolation_start_tick
                                      = interpolation_buffer.interpolation_end_tick])
        /\ UNCHANGED <<world_vars, last_received_tick, time_since_startup, process_result,
                       codec_vars, buffer_vars, registry_vars>>

NextPlayback ==
    \/ \E tick \in PlaybackTicks : AddSnapshot(tick)
    \/ UpdateFrame
    \/ AdvanceTime(MaxSteps)

SpecPlayback == InitPlayback /\ [][NextPlayback]_vars

(***************************************************************************)
(* A long session: the first frames arrive, the session runs on for 2^19   *)
(* seconds, and playback goes on with the frames the server sends then.    *)
(***************************************************************************)
\* 2^19 seconds in milliseconds: from here on two f32 values are 1/16 s
\* apart, more than tick_duration.
LongRun == 1000 * Pow2(19)

\* The server's tick LongRun after tick 0.
LongTick == (LongRun \div 1000) * DEFAULT_TICK_RATE

\* The ticks that can arrive at the current instant.
SessionTicks ==
    IF time_since_startup < LongRun THEN 0..1
    ELSE {LongTick + t : t \in PlaybackTicks}

\* The engine's Time resource over the session, writing no state but the
\* clock: LongRun passes at once, then the clock moves on in steps.
SessionTime ==
    /\ \/ /\ time_since_startup < LongRun
          /\ time_since_startup' = time_since_startup + LongRun
       \/ /\ time_since_startup >= LongRun
          /\ time_since_startup - LongRun < MaxSteps * TimeStep
          /\ time_since_startup' = time_since_startup + TimeStep
    /\ UNCHANGED <<world_vars, interpolation_buffer, last_received_tick, process_result, applied,
                   network_interpolation, update_result,
                   codec_vars, buffer_vars, registry_vars>>

NextSession ==
    \/ \E tick \in SessionTicks : AddSnapshot(tick)
    \/ UpdateFrame
    \/ AdvanceTime(MaxTime)
    \/ SessionTime

SpecSession == InitPlayback /\ [][NextSession]_vars

(***************************************************************************)
(* The ClientInfo receiver: frames arrive in full and in any order, and    *)
(* update_info runs once per frame of the engine, TimeStep apart.          *)
(***************************************************************************)
InfoWorld ==
    [info |-> client_info, buffer |-> frame_buffer,
     tick_interpolation |-> tick_interpolation, applied |-> applied,
     scale |-> 100, applies |-> FALSE, panicked |-> FALSE]

Panicked == is_some(info_result) /\ unwrap(info_result).panicked

InitInfoReceiver ==
    /\ InitClient
    /\ IdleCodec
    /\ IdleBuffer
    /\ IdleRegistry

\* process_snap(message, world) on the full frame of a tick
ProcessSnap(tick) ==
    /\ ~Panicked
    /\ \E done \in {process_snap(consume(write_full_frame(SnapshotFrame(tick))), InfoWorld)} :
          /\ process_result' = Some(done.result)
          /\ client_info' = done.world.info
          /\ frame_buffer' = done.world.buffer
    /\ UNCHANGED <<replica_vars, tick_interpolation, info_result, interpolation_buffer,
                   last_received_tick, time_since_startup, applied,
                   network_interpolation, update_result,
                   codec_vars, buffer_vars, registry_vars>>

\* update_info(world), the engine's Time having moved on by TimeStep.
UpdateInfo ==
    /\ ~Panicked
    /\ client_info.current_playback_time < MaxSteps * TimeStep * 1000
    /\ \E done \in {update_info(InfoWorld, TimeStep * 1000)} :
          /\ client_info' = done.info
          /\ tick_interpolation' = done.tick_interpolation
          /\ applied' = done.applied
          /\ info_result' = Some([scale |-> done.scale, applies |-> done.applies,
                                   panicked |-> done.panicked])
    /\ UNCHANGED <<replica_vars, frame_buffer, interpolation_buffer, last_received_tick,
                   time_since_startup, process_result, network_interpolation, update_result,
                   codec_vars, buffer_vars, registry_vars>>

NextInfo ==
    \/ \E tick \in SnapshotTicks : ProcessSnap(tick)
    \/ UpdateInfo

SpecInfo == InitInfoReceiver /\ [][NextInfo]_vars

(***************************************************************************)
(* The producer: the game spawns and despawns replicated entities, and the *)
(* schedule runs once per frame of the engine, one or two steps of the     *)
(* fixed timestep having elapsed since the frame before.                   *)
(***************************************************************************)
\* The replicated entities of the World, and the one the game spawned last:
\* the game gives them the ids 0, 1, .. in turn.
Replicated == {e \in DOMAIN ecs : alive(ecs, e) /\ is_some(unwrap(ecs[e]).network_id)}

\* The component the game gives the entity of an id: every other one has none.
ServerComponent(id) == IF id % 2 = 0 THEN Some(10) ELSE None

Server == [tick |-> network_tick, buffer |-> server_buffer, storage |-> ecs]

InitServer ==
    /\ InitClient
    /\ IdleCodec
    /\ IdleBuffer
    /\ IdleRegistry

\* commands.spawn().insert(NetworkID(id)), with or without the component
SpawnNetworked ==
    /\ \E e \in DOMAIN ecs : ~alive(ecs, e)
    /\ ecs' = [ecs EXCEPT ![spawn_id(ecs)] =
                   Some([network_id |-> Some(Cardinality(Replicated)),
                         simple     |-> ServerComponent(Cardinality(Replicated))])]
    /\ UNCHANGED <<network_tick, server_buffer, production, network_mapping,
                   applications, world_panicked, host, link, decoded_ticks, client_info, frame_buffer,
                   tick_interpolation, info_result,
                   codec_vars, client_vars, buffer_vars, registry_vars>>

\* commands.entity(e).despawn() on the replicated entity spawned last
DespawnNetworked ==
    /\ Replicated # {}
    /\ ecs' = despawn(ecs, CHOOSE e \in Replicated :
                              unwrap(ecs[e]).network_id = Some(Cardinality(Replicated) - 1))
    /\ UNCHANGED <<network_tick, server_buffer, production, network_mapping,
                   applications, world_panicked, host, link, decoded_ticks, client_info, frame_buffer,
                   tick_interpolation, info_result,
                   codec_vars, client_vars, buffer_vars, registry_vars>>

\* One frame of the engine after elapsed_steps steps of the fixed timestep.
\* The history keeps the ticks produced and, for those less than a capacity
\* behind the latest, the frames generated for them.
RunSchedule(elapsed_steps) ==
    /\ network_tick + elapsed_steps <= MaxSeq
    /\ \E done \in {run_schedule(elapsed_steps, Server)} :
          /\ network_tick' = done.tick
          /\ server_buffer' = done.buffer
          /\ production' =
                [ticks  |-> production.ticks \cup {done.tick},
                 frames |-> [u \in {v \in production.ticks \cup {done.tick} :
                                       done.tick - v < Capacity} |->
                                IF u = done.tick
                                THEN generate_frame(done.tick, ecs)
                                ELSE production.frames[u]]]
    /\ UNCHANGED <<ecs, network_mapping, applications, world_panicked,
                   host, link, decoded_ticks, client_info, frame_buffer, tick_interpolation, info_result,
                   codec_vars, client_vars, buffer_vars, registry_vars>>

NextServer ==
    \/ SpawnNetworked
    \/ DespawnNetworked
    \/ \E elapsed_steps \in 1..2 : RunSchedule(elapsed_steps)

SpecServer == InitServer /\ [][NextServer]_vars

(***************************************************************************)
(* Every way this model obtains a frame: a process is either the receiver  *)
(* of a message built by hand, which it reads, or the producer.            *)
(***************************************************************************)
InitFrames == InitDecode \/ InitServer

NextFrames ==
    \/ codec_op = "received" /\ ReadReceived
    \/ codec_op = "new" /\ NextServer

SpecFrames == InitFrames /\ [][NextFrames]_vars

(***************************************************************************)
(* The consumer: apply_in_world on one frame after another, each any frame *)
(* read_frame may return (an id may be listed twice), in a World that also *)
(* holds an entity of the client's own.                                    *)
(***************************************************************************)
AppliedComponents == {None, Some(10)}

AppliedFrames ==
    UNION {{[tick |-> 0, entities |-> e, simple |-> c] : c \in [1..Len(e) -> AppliedComponents]}
           : e \in SeqsUpTo(FrameIds, MaxEntities)}

Client ==
    [storage |-> ecs, mapping |-> network_mapping, applications |-> << >>,
     panicked |-> FALSE]

\* frame.apply_in_world(world).  The record of the call keeps the calls of
\* NetworkedComponent::apply, the ids that left the mapping and the ids that
\* entered it.
ApplyInWorld(snapshot) ==
    /\ ~world_panicked
    /\ \E done \in {apply_in_world(snapshot, Client)} :
          /\ ecs' = done.storage
          /\ network_mapping' = done.mapping
          /\ world_panicked' = done.panicked
          /\ applications' =
                [calls   |-> done.applications,
                 removed |-> DOMAIN network_mapping \ DOMAIN done.mapping,
                 created |-> DOMAIN done.mapping \ DOMAIN network_mapping]
    /\ applied' = Some(snapshot)
    /\ UNCHANGED <<network_tick, server_buffer, production, host, link, decoded_ticks,
                   client_info, frame_buffer, tick_interpolation, info_result,
                   interpolation_buffer, last_received_tick, time_since_startup,
                   process_result, network_interpolation, update_result,
                   codec_vars, buffer_vars, registry_vars>>

NextApply == \E snapshot \in AppliedFrames : ApplyInWorld(snapshot)

SpecApply == InitServer /\ [][NextApply]_vars

(***************************************************************************)
(* Host and client over the transport, as the demo wires them: every frame *)
(* of the host's engine runs the schedule and then server_sync_players;    *)
(* every frame of the client's engine hands the arrived messages to        *)
(* process_snapshot and then sends LastReceivedNetworkTick.  Both channels  *)
(* are renet's unreliable channel: link.snapshots and link.acks hold what  *)
(* was sent, in the order of sending, and a frame of either engine         *)
(* receives any one of them or none.  With in_order a message is delivered *)
(* at most once and never after a later one (link.snapshots_read and       *)
(* link.acks_read count what the receivers are past).                      *)
(***************************************************************************)
\* renet's id of the one client of the session
ClientId == 1

\* The World after the game's systems of the frame in which NetworkTick
\* becomes at_tick: a camera, a player that moves one unit per tick, and a
\* second replicated entity, without the component, during two ticks of four.
game_world(at_tick) ==
    [e \in WorldEntities |->
        IF e = 0 THEN LocalOnly[0]
        ELSE IF e = 1
        THEN Some([network_id |-> Some(0), simple |-> Some(10 + at_tick)])
        ELSE IF e = 2 /\ at_tick % 4 \in {2, 3}
        THEN Some([network_id |-> Some(1), simple |-> None])
        ELSE None]

\* The tick a message announces in its header.
announced_tick(payload) == read_frame_header(payload, 0).val.tick

HostPanicked == host.replicated = Some("panic")

\* ServerEvent::ClientConnected
Connect ==
    /\ host.clients = {}
    /\ host' = [host EXCEPT !.clients = {ClientId}]
    /\ UNCHANGED <<ecs, network_tick, server_buffer, production, network_mapping,
                   applications, world_panicked, link, decoded_ticks,
                   client_info, frame_buffer, tick_interpolation, info_result,
                   codec_vars, client_vars, buffer_vars, registry_vars>>

\* One frame of the host's engine, elapsed_steps steps of the fixed timestep
\* after the one before: tick_network, the game's systems,
\* generate_network_frame, then server_sync_players, which reads the
\* acknowledgement that arrived (link.acks[arrived], none if 0) and sends
\* replicate's bytes to the connected client.  host.produced records the
\* frame generated for each tick.  A channel that may deliver a message any
\* number of times holds it once however often it is sent.
HostFrame(elapsed_steps, arrived, in_order) ==
    /\ ~HostPanicked
    /\ network_tick + elapsed_steps <= MaxSeq
    /\ Len(link.snapshots) < MaxSeq
    /\ \/ arrived = 0
       \/ /\ host.clients # {}
          /\ arrived \in 1..Len(link.acks)
          /\ in_order => arrived > link.acks_read
    /\ \E ran \in {run_schedule(elapsed_steps,
                       [Server EXCEPT !.storage = game_world(network_tick + elapsed_steps)])} :
       \E acked \in {IF arrived = 0 THEN host.last_ticks
                     ELSE update_last_ticks(host.last_ticks, ClientId,
                                            <<link.acks[arrived]>>)} :
       \E sent \in {IF host.clients = {} THEN None
                    ELSE Some(replicate(ClientId, ran.tick, acked, ran.buffer))} :
          /\ ecs' = ran.storage
          /\ network_tick' = ran.tick
          /\ server_buffer' = ran.buffer
          /\ host' = [host EXCEPT
                         !.last_ticks = acked,
                         !.replicated = IF sent = None THEN None
                                        ELSE Some(unwrap(sent).kind),
                         !.produced = IF elapsed_steps = 0 THEN @
                                      ELSE (ran.tick :> generate_frame(ran.tick, ran.storage)) @@ @]
          /\ link' = [link EXCEPT
                         !.snapshots =
                             IF /\ sent # None
                                /\ unwrap(sent).kind = "Ok"
                                /\ in_order \/ \A i \in 1..Len(@) : @[i] # unwrap(sent).message
                             THEN Append(@, unwrap(sent).message) ELSE @,
                         !.acks_read = IF in_order /\ arrived # 0 THEN arrived ELSE @]
    /\ UNCHANGED <<production, network_mapping, applications, world_panicked,
                   decoded_ticks, client_info, frame_buffer, tick_interpolation,
                   info_result, codec_vars, client_vars, buffer_vars, registry_vars>>

\* One frame of the client's engine: process_snapshot on the message that
\* arrived (link.snapshots[arrived], none if 0), then
\* client_send_last_received_tick.  The host keeps the greatest tick it is
\* sent, so the channel holds a tick once however often it is sent again.
ClientFrame(arrived, in_order) ==
    /\ \/ arrived = 0
       \/ /\ arrived \in 1..Len(link.snapshots)
          /\ in_order => arrived > link.snapshots_read
    /\ \E done \in {IF arrived = 0 THEN [world |-> World]
                    ELSE process_snapshot(link.snapshots[arrived], World)} :
          /\ process_result' = IF arrived = 0 THEN process_result
                               ELSE Some(done.result)
          /\ last_received_tick' = done.world.last_received_tick
          /\ interpolation_buffer' = done.world.interpolation_buffer
          /\ decoded_ticks' = IF arrived # 0 /\ done.result.ok
                              THEN decoded_ticks \cup {announced_tick(link.snapshots[arrived])}
                              ELSE decoded_ticks
          /\ link' = [link EXCEPT
                         !.acks = IF /\ is_some(done.world.last_received_tick)
                                     /\ \A i \in 1..Len(@) :
                                            @[i] # unwrap(done.world.last_received_tick)
                                  THEN Append(@, unwrap(done.world.last_received_tick))
                                  ELSE @,
                         !.snapshots_read = IF in_order /\ arrived # 0 THEN arrived ELSE @]
    /\ UNCHANGED <<ecs, network_tick, server_buffer, production, network_mapping,
                   applications, world_panicked, host, client_info, frame_buffer,
                   tick_interpolation, info_result, time_since_startup, applied,
                   network_interpolation, update_result,
                   codec_vars, buffer_vars, registry_vars>>

NextLink ==
    \/ Connect
    \/ \E elapsed_steps \in 0..2, arrived \in 0..MaxSeq :
          HostFrame(elapsed_steps, arrived, FALSE)
    \/ \E arrived \in 0..MaxSeq : ClientFrame(arrived, FALSE)

\* Any loss, duplication and reordering on both channels.
SpecLink == InitServer /\ [][NextLink]_vars

NextOrdered ==
    \/ Connect
    \/ \E elapsed_steps \in 0..2, arrived \in 0..MaxSeq :
          HostFrame(elapsed_steps, arrived, TRUE)
    \/ \E arrived \in 0..MaxSeq : ClientFrame(arrived, TRUE)

\* Loss only: what arrives, arrives once and in the order of sending.
SpecOrdered == InitServer /\ [][NextOrdered]_vars

(***************************************************************************)
(* Properties of the frame codec.                                          *)
(***************************************************************************)
EntitySet(f) == {f.entities[i] : i \in 1..Len(f.entities)}

ReferenceHeld ==
    get(interpolation_buffer.buffer, delta_frame.tick) = Some(delta_frame)

\* C1: delta round trip.  When the decoder's buffer holds the reference under
\* the reference's tick, read_frame of the bytes of
\* frame.write_delta_frame(delta_frame) returns Ok with a frame equal to
\* `frame` in tick, entity list and field array.
C1_DeltaRoundTrip ==
    (codec_op = "write_delta_frame" /\ is_some(decoded) /\ ReferenceHeld)
        => (unwrap(decoded).ok /\ unwrap(decoded).val = frame)

\* A delta round trip of a frame with an entity added, an entity removed, an
\* entity that moved to another position and a delta-encoded value.
C1_Witness ==
    /\ codec_op = "write_delta_frame" /\ is_some(decoded) /\ ReferenceHeld
    /\ unwrap(decoded).ok /\ unwrap(decoded).val = frame
    /\ EntitySet(frame) \ EntitySet(delta_frame) # {}
    /\ EntitySet(delta_frame) \ EntitySet(frame) # {}
    /\ \E i \in 1..Len(frame.entities), j \in 1..Len(delta_frame.entities) :
         /\ frame.entities[i] = delta_frame.entities[j] /\ i # j
         /\ is_some(frame.simple[i]) /\ is_some(delta_frame.simple[j])
         /\ component_change(delta_frame.simple[j], frame.simple[i]) = DeltaChange

\* C2: full round trip.  read_frame of the bytes of frame.write_full_frame
\* returns Ok with a frame equal to `frame`, whatever the decoder's buffer
\* holds (the reference or nothing).
C2_FullRoundTrip ==
    (codec_op = "write_full_frame" /\ is_some(decoded))
        => (unwrap(decoded).ok /\ unwrap(decoded).val = frame)

\* A full round trip of a frame with a present and an absent value, decoded
\* against an empty buffer.
C2_Witness ==
    /\ codec_op = "write_full_frame" /\ is_some(decoded)
    /\ unwrap(decoded).ok /\ unwrap(decoded).val = frame
    /\ \E i, j \in 1..Len(frame.simple) :
         is_some(frame.simple[i]) /\ ~is_some(frame.simple[j])
    /\ ~ReferenceHeld

\* The delta header of `frame` against `delta_frame`, and the change codes and
\* the payload length found in the written bits.
DeltaHeaderBits ==
    Len(write_frame_header(frame.tick, Some(delta_frame.tick), frame.entities))

WrittenChange(i) == BitsValue(unwrap(wire), DeltaHeaderBits + 2 * (i - 1), 2)

RECURSIVE SumOver(_, _)
SumOver(f, n) == IF n = 0 THEN 0 ELSE f[n] + SumOver(f, n - 1)

WrittenPayloadBits == bits_written - DeltaHeaderBits - 2 * Len(frame.entities)

\* An entity of the frame whose reference value and current value are both
\* present and equal.
SameValue(i) ==
    /\ frame.entities[i] \in EntitySet(delta_frame)
    /\ \E j \in 1..Len(delta_frame.entities) :
         /\ delta_frame.entities[j] = frame.entities[i]
         /\ is_some(delta_frame.simple[j])
         /\ delta_frame.simple[j] = frame.simple[i]

\* C10: change-code priority.  In a delta encoding, an entity whose reference
\* value and current value are present and equal is written with the code
\* NoChange, and the payload holds bits only for the entities coded FullChange
\* (32 bits) and DeltaChange (6 bits), although can_delta holds of equal values.
C10_NoChangePriority ==
    codec_op = "write_delta_frame" =>
        /\ \A i \in 1..Len(frame.entities) :
             SameValue(i) => WrittenChange(i) = NoChange
        /\ WrittenPayloadBits =
             SumOver([i \in 1..Len(frame.entities) |->
                        IF WrittenChange(i) = FullChange THEN 32
                        ELSE IF WrittenChange(i) = DeltaChange THEN 6 ELSE 0],
                     Len(frame.entities))

\* A delta encoding with an unchanged value, for which can_delta holds, next
\* to a changed one.
C10_Witness ==
    /\ codec_op = "write_delta_frame"
    /\ \E i, k \in 1..Len(frame.entities) :
         /\ SameValue(i) /\ WrittenChange(i) = NoChange
         /\ Simple_can_delta(unwrap(frame.simple[i]), unwrap(frame.simple[i]))
         /\ WrittenChange(k) = DeltaChange

\* C11: a new entity forces a full change.  In a delta encoding, every entity
\* of the frame that does not occur in the reference's entity list is written
\* with the code FullChange where it has a value and NoComponent where it has
\* none.
C11_NewEntityFullChange ==
    codec_op = "write_delta_frame" =>
        \A i \in 1..Len(frame.entities) :
            frame.entities[i] \notin EntitySet(delta_frame) =>
                WrittenChange(i) = IF is_some(frame.simple[i]) THEN FullChange
                                   ELSE NoComponent

\* A delta encoding of a frame with a new entity whose value equals a value of
\* the reference (can_delta holds of the pair) and a new entity without value.
C11_Witness ==
    /\ codec_op = "write_delta_frame"
    /\ \E i, k \in 1..Len(frame.entities), j \in 1..Len(delta_frame.entities) :
         /\ frame.entities[i] \notin EntitySet(delta_frame)
         /\ is_some(frame.simple[i]) /\ is_some(delta_frame.simple[j])
         /\ Simple_can_delta(unwrap(delta_frame.simple[j]), unwrap(frame.simple[i]))
         /\ WrittenChange(i) = FullChange
         /\ frame.entities[k] \notin EntitySet(delta_frame)
         /\ ~is_some(frame.simple[k]) /\ WrittenChange(k) = NoComponent

(***************************************************************************)
(* Properties of read_frame on hand-built messages.                        *)
(***************************************************************************)
\* The stream holds the header fields up to the declared count, and the ids.
CountReadable == Len(MessageCountBits(received)) <= Len(unwrap(wire))

HeaderReadable ==
    /\ received.ids = received.len
    /\ received.len <= MAX_LENGTH
    /\ Len(MessageCountBits(received)) + NETWORK_ID_BITS * received.ids
          <= Len(unwrap(wire))

\* No slot of the receiver's buffer stores a frame of tick t.
NoFrameAt(t) ==
    \A i \in DOMAIN interpolation_buffer.buffer.data :
        \/ interpolation_buffer.buffer.data[i] = None
        \/ unwrap(interpolation_buffer.buffer.data[i]).tick # t

AboveLimit == Err("InvalidData", "network entities length above limit")

MissingReference == Err("InvalidData", "Delta frame not available")

\* C12: a declared entity count above MAX_LENGTH is rejected with the
\* length error whether or not any id follows the count (no id is read), and
\* a count up to and including MAX_LENGTH is never rejected with it: a full
\* message that declares such a count and carries its ids decodes.
C12_CountAboveLimitRejected ==
    (codec_op = "received" /\ is_some(decoded) /\ CountReadable) =>
        /\ received.len > MAX_LENGTH => unwrap(decoded) = AboveLimit
        /\ received.len <= MAX_LENGTH => unwrap(decoded) # AboveLimit
        /\ (HeaderReadable /\ ~is_some(received.delta_tick) /\ received.cut = 0) =>
              /\ unwrap(decoded).ok
              /\ Len(unwrap(decoded).val.entities) = received.len

\* A count of MAX_LENGTH + 1 followed by no id at all is rejected with the
\* length error (reading an id would have met the end of the stream).
C12_Witness ==
    /\ codec_op = "received" /\ is_some(decoded) /\ CountReadable
    /\ received.len = MAX_LENGTH + 1 /\ received.ids = 0
    /\ unwrap(decoded) = AboveLimit

\* Entity i of the message is coded NoChange or DeltaChange and is missing
\* from the reference's entity list, or is coded DeltaChange and has no value
\* in the reference.
Unresolvable(i) ==
    /\ MessageChange(received, i) \in {NoChange, DeltaChange}
    /\ \/ \A j \in 1..Len(delta_frame.entities) : delta_frame.entities[j] # i - 1
       \/ /\ MessageChange(received, i) = DeltaChange
          /\ \E j \in 1..Len(delta_frame.entities) :
               delta_frame.entities[j] = i - 1 /\ delta_frame.simple[j] = None

C14_MissingReferenceIsError ==
    ( /\ codec_op = "received" /\ is_some(decoded) /\ CountReadable
      /\ is_some(received.delta_tick)
      /\ NoFrameAt(unwrap(received.delta_tick)) )
    => /\ ~unwrap(decoded).ok
       /\ HeaderReadable => unwrap(decoded) = MissingReference

\* The message refers to tick 0 and carries only full values, the slot of tick
\* 0 holds the frame of tick Capacity.
C14_Witness ==
    /\ codec_op = "received" /\ is_some(decoded) /\ HeaderReadable
    /\ received.delta_tick = Some(0) /\ received.cut = 0 /\ received.ids >= 1
    /\ \A i \in 1..received.ids : MessageChange(received, i) = FullChange
    /\ delta_frame.tick = Capacity
    /\ interpolation_buffer.buffer.sequences[index_of(interpolation_buffer.buffer, 0)]
          = Some(Capacity)
    /\ unwrap(decoded) = MissingReference

\* C15: the error value of a missing reference is returned exactly for the
\* delta messages with a readable header whose reference tick is not in the
\* buffer; every other failed decode (count above the limit, mapping miss,
\* missing reference value, truncated stream) returns a different value.
C15_MissingReferenceDistinct ==
    (codec_op = "received" /\ is_some(decoded) /\ ~unwrap(decoded).ok) =>
        ( unwrap(decoded) = MissingReference
          <=> ( /\ HeaderReadable
                /\ is_some(received.delta_tick)
                /\ NoFrameAt(unwrap(received.delta_tick)) ) )

\* A mapping miss against a held reference: an InvalidData error, as the
\* missing reference is, with another message.
C15_Witness ==
    /\ codec_op = "received" /\ is_some(decoded) /\ HeaderReadable
    /\ is_some(received.delta_tick) /\ ~NoFrameAt(unwrap(received.delta_tick))
    /\ ~unwrap(decoded).ok
    /\ unwrap(decoded).kind = MissingReference.kind
    /\ unwrap(decoded) # MissingReference

(***************************************************************************)
(* Properties of the sequence ring buffer.                                 *)
(***************************************************************************)
\* C3, as claimed: after insert(s, v), get(s) returns Some(v) in every later
\* state unless a later insert on the same slot with a higher or equal
\* sequence number has occurred.
C3_InsertGetHigherOrEqual ==
    \A p \in pending : get(buffer, p.seq) = Some(p.val)

\* C3, amended: with inserts only, after insert(s, v) get(s) returns Some(v)
\* exactly as long as no later insert has written the same slot, whatever the
\* sequence number of that insert (a lower one evicts the entry too).
C3_InsertGetLastWriter ==
    \A p \in pending :
        (get(buffer, p.seq) = Some(p.val)) <=> (last_written[p.seq % Capacity] = Some(p))

\* An insert with a lower sequence number has just evicted a higher one of
\* the same slot.
C3_Witness ==
    \E p \in pending :
        /\ buffer_op.kind = "insert"
        /\ buffer_op.seq < p.seq /\ buffer_op.seq % Capacity = p.seq % Capacity
        /\ get(buffer, p.seq) = None
        /\ is_some(get(buffer, buffer_op.seq))

\* C5: get(seq) returns a payload only if the slot's tag equals seq: whenever
\* get(seq) is Some(v) the slot seq mod capacity was last written by
\* insert(seq, v); and right after inserting s and then s + capacity, get(s)
\* is absent and get(s + capacity) returns the value just inserted.
C5_GetExactTag ==
    /\ \A sequence \in Seqs :
         is_some(get(buffer, sequence)) =>
            last_written[sequence % Capacity] =
               Some([seq |-> sequence, val |-> unwrap(get(buffer, sequence))])
    /\ (/\ buffer_prev_op.kind = "insert" /\ buffer_op.kind = "insert"
        /\ buffer_op.seq = buffer_prev_op.seq + Capacity)
         => /\ get(buffer, buffer_prev_op.seq) = None
            /\ is_some(last_written[buffer_op.seq % Capacity])
            /\ get(buffer, buffer_op.seq) =
                  Some(unwrap(last_written[buffer_op.seq % Capacity]).val)

\* s and s + capacity were inserted one after the other.
C5_Witness ==
    /\ buffer_prev_op.kind = "insert" /\ buffer_op.kind = "insert"
    /\ buffer_op.seq = buffer_prev_op.seq + Capacity
    /\ get(buffer, buffer_prev_op.seq) = None
    /\ is_some(get(buffer, buffer_op.seq))

(***************************************************************************)
(* Properties of the identity registry.                                    *)
(***************************************************************************)
\* C6: starting from a fresh registry and calling generate() without any
\* release, each of the first MAX_LENGTH calls returns an id and call number
\* MAX_LENGTH + 1 returns None and ends normally (no panic).
C6_Exhaustion ==
    ~any_release =>
        /\ generate_calls \in 1..MAX_LENGTH => generated.kind = "Some"
        /\ generate_calls = MAX_LENGTH + 1 => (generated.kind = "None" /\ ~crashed)

\* C7: no two live allocations share a value: generate() never returns an id
\* that it returned earlier and that was not released since.
C7_Uniqueness == \A id \in 0..MAX_ID : allocations[id] <= 1

\* generate() has just handed out an id while other ids are live and one
\* was released.
C7_Witness ==
    /\ generated.kind = "Some"
    /\ allocations[generated.id] = 1
    /\ \E id \in 0..MAX_ID : id # generated.id /\ allocations[id] = 1
    /\ released # {}

\* C8: whenever at least one value of the domain is not in use, generate()
\* returns a value that is free.
C8_GenerateFindsFree ==
    (~crashed /\ \E id \in 0..MAX_ID : ~network_entities.used[id]) =>
        LET result == generate(network_entities)
        IN  result.kind = "Some" /\ ~network_entities.used[result.id]

\* Some call among the next `calls` calls of generate(), with nothing else in
\* between, returns id.
RECURSIVE ReturnedWithin(_, _, _)
ReturnedWithin(self, id, calls) ==
    IF calls = 0 THEN FALSE
    ELSE LET result == generate(self)
         IN  IF result.kind = "panic" THEN FALSE
             ELSE IF result.kind = "Some" /\ result.id = id THEN TRUE
             ELSE ReturnedWithin(result.self, id, calls - 1)

\* C9: an id that was released and not handed out again is returned again by
\* some call of a continuation made of generate() calls only (two rounds of
\* the domain are more than a round-robin scan needs).
C9_ReleasedIsReusable ==
    ~crashed =>
        \A id \in released : ReturnedWithin(network_entities, id, 2 * MAX_LENGTH)


(***************************************************************************)
(* Properties of the receive path.                                         *)
(***************************************************************************)
\* C4: when the receiver's buffer holds a frame with tick t and
\* process_snapshot then processes a frame with an older tick of the same
\* slot, get(t) still returns the frame with tick t afterwards.
C4_OlderFrameCannotClobber ==
    [][\A payload \in Payloads, t \in SnapshotTicks :
         \A snapshot \in {read_frame(payload, interpolation_buffer.buffer)} :
            ( /\ ProcessSnapshot(payload)
              /\ snapshot.ok
              /\ is_some(get(interpolation_buffer.buffer, t))
              /\ snapshot.val.tick < t
              /\ index_of(interpolation_buffer.buffer, snapshot.val.tick)
                   = index_of(interpolation_buffer.buffer, t) )
            => get(interpolation_buffer'.buffer, t)
                  = get(interpolation_buffer.buffer, t)]_vars

\* C16: a failed decode changes nothing.  Whenever process_snapshot returns
\* an error, LastReceivedNetworkTick, the receiver's buffer and playback
\* state, the snapshot applied to the world and the interpolation fraction
\* are what they were before the call.
C16_FailedDecodeChangesNothing ==
    [][\A payload \in Payloads :
         ( /\ is_some(process_result') /\ ~unwrap(process_result').ok
           /\ ProcessSnapshot(payload) )
         => UNCHANGED <<last_received_tick, interpolation_buffer, applied,
                        network_interpolation>>]_vars

\* A decode has just failed at the second entity of a delta message, after
\* the first entity was decoded, in a receiver that holds frames.
C16_Witness ==
    /\ process_result = Some(Err("InvalidData", "Component not found in delta mapping"))
    /\ is_some(last_received_tick)
    /\ is_some(get(interpolation_buffer.buffer, 0))

(***************************************************************************)
(* Properties of the playback clock.  Idle is `stopped`, Seeking is        *)
(* started and not `interpolating`.                                        *)
(***************************************************************************)
\* Playback time at the current instant, in milliseconds: the time elapsed
\* since the anchor time plus the delay (negative before playback starts).
PlaybackTime ==
    time_since_startup
       - (interpolation_buffer.start_time + interpolation_buffer.playout_delay)

\* The target tick: the anchor tick plus the whole ticks of playback time.
TargetTick ==
    interpolation_buffer.start_tick
       + (PlaybackTime \div 1000) * interpolation_buffer.tick_rate
       + ((PlaybackTime % 1000) * interpolation_buffer.tick_rate) \div 1000

TargetHeld ==
    \E i \in DOMAIN interpolation_buffer.buffer.data :
        /\ interpolation_buffer.buffer.data[i] # None
        /\ unwrap(interpolation_buffer.buffer.data[i]).tick = TargetTick

\* N = floor(playout_delay * tick_rate)
WindowTicks ==
    (interpolation_buffer.playout_delay * interpolation_buffer.tick_rate) \div 1000

\* C17: playback anchoring.  The first frame takes the clock out of Idle and
\* anchors it to the frame's tick and to its arrival time, not interpolating;
\* later frames leave the anchor alone; playback runs the delay behind (the
\* anchor tick is the target when the clock reads arrival time + delay), and
\* an update leaves Seeking only when playback has started and a frame of the
\* target tick is in the buffer.
C17_Anchoring ==
    [][ /\ \A tick \in PlaybackTicks :
             AddSnapshot(tick) =>
                IF interpolation_buffer.stopped
                THEN /\ ~interpolation_buffer'.stopped
                     /\ interpolation_buffer'.start_tick = tick
                     /\ interpolation_buffer'.start_time = time_since_startup
                     /\ ~interpolation_buffer'.interpolating
                ELSE /\ ~interpolation_buffer'.stopped
                     /\ interpolation_buffer'.start_tick = interpolation_buffer.start_tick
                     /\ interpolation_buffer'.start_time = interpolation_buffer.start_time
        /\ (UpdateFrame /\ ~interpolation_buffer.interpolating
              /\ interpolation_buffer'.interpolating)
           => /\ ~interpolation_buffer.stopped
              /\ PlaybackTime >= 0
              /\ TargetHeld
              /\ interpolation_buffer'.start_tick = interpolation_buffer.start_tick
              /\ interpolation_buffer'.start_time = interpolation_buffer.start_time
      ]_vars

\* The clock was anchored by a frame that is not tick 0 and did not arrive at
\* time 0, playback has started, and the last update left it in Seeking.
C17_Witness ==
    /\ ~interpolation_buffer.stopped
    /\ interpolation_buffer.start_tick > 0
    /\ interpolation_buffer.start_time > 0
    /\ PlaybackTime >= 0
    /\ ~interpolation_buffer.interpolating
    /\ is_some(update_result) /\ unwrap(update_result).path = "seeking"

\* A frame of tick t is stored in the receiver's buffer.
HeldAt(t) ==
    \E i \in DOMAIN interpolation_buffer.buffer.data :
        /\ interpolation_buffer.buffer.data[i] # None
        /\ unwrap(interpolation_buffer.buffer.data[i]).tick = t

\* The ticks of the frames held among the N ticks after t.
HeldAfter(t) == {u \in (t + 1)..(t + WindowTicks) : HeldAt(u)}

\* C20, as claimed: an update made in Seeking after playback has started
\* enters Interpolating if and only if the buffer holds a frame of the target
\* tick, and the bracket then has start tick = end tick = the target tick.
C20_SeekEntersPointBracket ==
    [][(UpdateFrame /\ ~interpolation_buffer.stopped
          /\ ~interpolation_buffer.interpolating /\ PlaybackTime >= 0)
       => /\ interpolation_buffer'.interpolating <=> HeldAt(TargetTick)
          /\ interpolation_buffer'.interpolating =>
                /\ interpolation_buffer'.interpolation_start_tick = TargetTick
                /\ interpolation_buffer'.interpolation_end_tick = TargetTick
      ]_vars

\* C20, amended: the update enters Interpolating if and only if the buffer
\* holds a frame of the target tick; the bracket then starts at the target
\* tick, and ends there too unless a frame is held among the N ticks after
\* it: in that case the same update moves the end to the lowest such tick.
C20_SeekEntersAtTarget ==
    [][(UpdateFrame /\ ~interpolation_buffer.stopped
          /\ ~interpolation_buffer.interpolating /\ PlaybackTime >= 0)
       => /\ interpolation_buffer'.interpolating <=> HeldAt(TargetTick)
          /\ interpolation_buffer'.interpolating =>
                /\ interpolation_buffer'.interpolation_start_tick = TargetTick
                /\ interpolation_buffer'.interpolation_end_tick =
                      IF HeldAfter(TargetTick) = {} THEN TargetTick
                      ELSE Min(HeldAfter(TargetTick))
      ]_vars

\* The last update entered Interpolating from Seeking, not on the anchor
\* tick, and its bracket already ends on a later frame.
C20_Witness ==
    /\ is_some(update_result) /\ unwrap(update_result).entered
    /\ ~unwrap(update_result).stale
    /\ interpolation_buffer.interpolating
    /\ interpolation_buffer.interpolation_start_tick > interpolation_buffer.start_tick
    /\ interpolation_buffer.interpolation_end_tick
          > interpolation_buffer.interpolation_start_tick

\* The bracket is stale at the current instant: the target tick is more than
\* N ticks away from the bracket's start tick.
StaleBracket ==
    /\ interpolation_buffer.interpolating
    /\ PlaybackTime >= 0
    /\ \/ TargetTick - interpolation_buffer.interpolation_start_tick > WindowTicks
       \/ interpolation_buffer.interpolation_start_tick - TargetTick > WindowTicks

\* C18: an update made on a stale bracket stays in Interpolating only by
\* finding a frame of the target tick, and the bracket then starts at that
\* tick; otherwise the clock is out of Interpolating after the update, and
\* the update has moved neither the bracket, nor the world, nor the
\* interpolation fraction.
C18_StaleBracketDropped ==
    [][(UpdateFrame /\ StaleBracket)
       => /\ interpolation_buffer'.interpolating <=> HeldAt(TargetTick)
          /\ interpolation_buffer'.interpolating =>
                interpolation_buffer'.interpolation_start_tick = TargetTick
          /\ ~interpolation_buffer'.interpolating =>
                /\ interpolation_buffer' =
                      [interpolation_buffer EXCEPT !.interpolating = FALSE]
                /\ applied' = applied
                /\ network_interpolation' = network_interpolation
      ]_vars

\* The last update dropped a stale bracket and found no frame of the target
\* tick, although the buffer holds a frame after the old bracket.
C18_Witness ==
    /\ is_some(update_result) /\ unwrap(update_result).stale
    /\ ~unwrap(update_result).entered
    /\ ~interpolation_buffer.interpolating
    /\ \E t \in PlaybackTicks :
          t > interpolation_buffer.interpolation_end_tick /\ HeldAt(t)

\* The frame of tick t held in the receiver's buffer.
FrameAt(t) ==
    LET i == CHOOSE j \in DOMAIN interpolation_buffer.buffer.data :
                 /\ interpolation_buffer.buffer.data[j] # None
                 /\ unwrap(interpolation_buffer.buffer.data[j]).tick = t
    IN  unwrap(interpolation_buffer.buffer.data[i])

\* The clock is interpolating on a bracket that is not stale, and playback
\* time has reached the bracket's end time.
EndReached ==
    /\ interpolation_buffer.interpolating
    /\ ~StaleBracket
    /\ PlaybackTime >= interpolation_buffer.interpolation_end_time

\* The clock is interpolating on a bracket that is not stale and that
\* stalled on a single tick.
Stalled ==
    /\ interpolation_buffer.interpolating
    /\ ~StaleBracket
    /\ interpolation_buffer.interpolation_start_tick
          = interpolation_buffer.interpolation_end_tick

C21_FractionWithinUnit ==
    /\ ~network_interpolation.nan
    /\ network_interpolation.den.m > 0
    /\ f32_le(network_interpolation.num, network_interpolation.den)
    /\ (is_some(update_result) /\ unwrap(update_result).path = "interpolating")
          => interpolation_buffer.interpolation_end_time
                > interpolation_buffer.interpolation_start_time

\* How far the desired playback time of update_info is ahead of the playback
\* time the call starts from, in microseconds (negative when it is behind).
DesiredLead == client_info'.desired_playback_time - client_info.current_playback_time

\* C22: update_info moves the playback time on by the elapsed time times 1.0
\* when desired and current playback time are less than 8 ms apart, whichever
\* is ahead; otherwise times 1.02 when the playback is behind the desired
\* time and times 0.98 when it is ahead of it.
C22_ClockFactor ==
    [][UpdateInfo =>
         client_info'.current_playback_time - client_info.current_playback_time =
            IF DesiredLead < 8000 /\ 0 - DesiredLead < 8000
            THEN TimeStep * 1000
            ELSE IF DesiredLead > 0 THEN (TimeStep * 1000 * 102) \div 100
            ELSE (TimeStep * 1000 * 98) \div 100
      ]_vars

\* C23: no output without a bracket.  An update made in Idle, or in Seeking
\* before playback has started or with no frame of the target tick in the
\* buffer, applies no frame to the world and leaves the interpolation
\* fraction and the whole receiver state, bracket included, as they were.
C23_NoOutputWithoutBracket ==
    [][(/\ \/ interpolation_buffer.stopped
           \/ /\ ~interpolation_buffer.interpolating
              /\ (PlaybackTime < 0 \/ ~HeldAt(TargetTick))
        /\ UpdateFrame)
       => /\ ~unwrap(update_result').applied
          /\ applied' = applied
          /\ network_interpolation' = network_interpolation
          /\ interpolation_buffer' = interpolation_buffer
      ]_vars

\* The last update was made in Seeking, after playback had started, with
\* frames in the buffer but none of the target tick; the world still shows
\* the frame and the fraction of an earlier bracket.
C23_Witness ==
    /\ is_some(update_result) /\ unwrap(update_result).path = "seeking"
    /\ ~unwrap(update_result).stale
    /\ ~interpolation_buffer.interpolating
    /\ PlaybackTime >= 0
    /\ ~HeldAt(TargetTick)
    /\ \E t \in PlaybackTicks : HeldAt(t)
    /\ is_some(applied)
    /\ network_interpolation.num.m > 0

(***************************************************************************)
(* More properties of the ring buffer.                                     *)
(***************************************************************************)
\* The tags of the buffer's valid entries.
LiveTags ==
    {unwrap(buffer.sequences[i]) : i \in {j \in DOMAIN buffer.sequences : buffer.sequences[j] # None}}

RECURSIVE Ascending(_)
\* The payloads of the entries tagged in S, by ascending tag.
Ascending(S) ==
    IF S = {} THEN << >>
    ELSE <<unwrap(buffer.data[Min(S) % Capacity])>> \o Ascending(S \ {Min(S)})

\* C24: an iteration yields the payloads of all valid entries of the buffer,
\* each once, by ascending tag, whatever the distance between the tags.
C24_IterYieldsAllAscending ==
    buffer_op.kind = "iter" => ring_op.items = Ascending(LiveTags)

\* C25: remove_range(start..end) evicts the entries whose sequence numbers
\* lie in the range and leaves every other entry as get returned it before.
C25_RemoveRangeExact ==
    [][buffer_op'.kind = "remove_range" =>
         \A sequence \in Seqs :
            get(buffer', sequence) =
               IF buffer_op'.seq <= sequence /\ sequence < ring_op'.end
               THEN None
               ELSE get(buffer, sequence)
      ]_vars

\* C26: slot invariant.  Every slot has a tag if and only if it has a
\* payload, and a tag s in slot i satisfies s mod capacity = i and is the
\* sequence number of the insert that last wrote the slot, with its payload.
C26_SlotInvariant ==
    \A i \in DOMAIN buffer.sequences :
       /\ buffer.sequences[i] = None <=> buffer.data[i] = None
       /\ buffer.sequences[i] # None =>
            /\ unwrap(buffer.sequences[i]) % Capacity = i
            /\ last_written[i] = Some([seq |-> unwrap(buffer.sequences[i]),
                                       val |-> unwrap(buffer.data[i])])

\* A remove emptied one slot and a get_or_insert then wrote the other, on
\* its second lap or later.
C26_Witness ==
    /\ buffer_prev_op.kind = "remove"
    /\ buffer_op.kind = "get_or_insert"
    /\ buffer_op.seq >= Capacity
    /\ buffer.sequences[buffer_op.seq % Capacity] = Some(buffer_op.seq)
    /\ \E i \in DOMAIN buffer.sequences :
          buffer.sequences[i] = None /\ last_written[i] # None

(***************************************************************************)
(* Properties of replication through a World.                              *)
(***************************************************************************)
\* A frame whose per-field array is as long as its entity list.
WellShaped(f) == Len(f.simple) = Len(f.entities)

\* The frames the producer holds.
StoredFrames == {unwrap(server_buffer.data[i]) : i \in {j \in DOMAIN server_buffer.data : is_some(server_buffer.data[j])}}

\* C27: every frame read_frame returns, from a full or a delta message, and
\* every frame generate_frame builds has a per-field array exactly as long as
\* its entity list.
C27_FrameShape ==
    /\ is_some(decoded) /\ unwrap(decoded).ok => WellShaped(unwrap(decoded).val)
    /\ \A f \in StoredFrames : WellShaped(f)

\* A frame of two entities was generated in a World that holds a third,
\* unreplicated, one.
C27_Witness ==
    /\ \E f \in StoredFrames : Len(f.entities) = MaxEntities
    /\ alive(ecs, 0) /\ ~is_some(unwrap(ecs[0]).network_id)

\* The bytes of the variable-length encoding of v: one per 7 bits.
RECURSIVE VarintBytes(_)
VarintBytes(v) == IF v < 128 THEN 1 ELSE 1 + VarintBytes(v \div 128)

\* The header of the wire layout: the is-delta bit, the reference tick if
\* delta, the tick, the entity count, 12 bits per entity.
HeaderLength(is_delta) ==
    1 + (IF is_delta THEN 8 * VarintBytes(delta_frame.tick) ELSE 0)
      + 8 * VarintBytes(frame.tick)
      + 8 * VarintBytes(Len(frame.entities))
      + 12 * Len(frame.entities)

\* The change code written for entity i, found where the layout puts it.
CodeAt(i) == BitsValue(unwrap(wire), HeaderLength(TRUE) + 2 * (i - 1), 2)

\* C28: the number of bits written for a frame is the header plus, in full
\* mode, one presence bit per entity and a full payload (32 bits) per present
\* value, and in delta mode two code bits per entity and a payload only for
\* the entities coded DeltaChange (6 bits) or FullChange (32 bits).
C28_EncodedLength ==
    /\ codec_op = "write_full_frame" =>
          bits_written = HeaderLength(FALSE) + Len(frame.entities)
              + 32 * Cardinality({i \in 1..Len(frame.simple) : is_some(frame.simple[i])})
    /\ codec_op = "write_delta_frame" =>
          bits_written = HeaderLength(TRUE) + 2 * Len(frame.entities)
              + 32 * Cardinality({i \in 1..Len(frame.entities) : CodeAt(i) = FullChange})
              + 6 * Cardinality({i \in 1..Len(frame.entities) : CodeAt(i) = DeltaChange})

\* A delta encoding against a reference whose tick takes two bytes, with one
\* entity coded DeltaChange and one coded NoChange.
C28_Witness ==
    /\ codec_op = "write_delta_frame"
    /\ delta_frame.tick >= 128
    /\ \E i, j \in 1..Len(frame.entities) :
          CodeAt(i) = DeltaChange /\ CodeAt(j) = NoChange

\* The tick of the latest production.
LatestProduced == CHOOSE t \in production.ticks : \A u \in production.ticks : u <= t

\* C29: after the production at tick t the producer's buffer returns, for t and
\* for every tick u produced earlier with t - u < capacity, the frame generated
\* for it, and returns nothing for a produced tick with t - u >= capacity.
C29_ProductionWindow ==
    \A u \in production.ticks :
        IF LatestProduced - u < Capacity
        THEN get(server_buffer, u) = Some(production.frames[u])
        ELSE get(server_buffer, u) = None

\* The entities the mapping maps to.
Mapped == {network_mapping[id] : id \in DOMAIN network_mapping}

\* C30: after apply_in_world(F) the key set of NetworkMapping is the set of
\* the ids F lists: an id F does not list has left the mapping and its entity
\* is gone, an id new in F maps to a living entity that carries it.  Every
\* value present in F was applied to the entity mapped from its id, and no
\* value was applied to an entity the mapping does not map to.
C30_ApplyReconciles ==
    is_some(applied) =>
        /\ ~world_panicked
        /\ DOMAIN network_mapping = EntitySet(unwrap(applied))
        /\ \A id \in DOMAIN network_mapping :
              /\ alive(ecs, network_mapping[id])
              /\ unwrap(ecs[network_mapping[id]]).network_id = Some(id)
        /\ \A e \in DOMAIN ecs :
              alive(ecs, e) /\ is_some(unwrap(ecs[e]).network_id) => e \in Mapped
        /\ \A i \in 1..Len(unwrap(applied).entities) :
              is_some(unwrap(applied).simple[i]) =>
                 \E k \in 1..Len(applications.calls) :
                    applications.calls[k] =
                       [entity    |-> network_mapping[unwrap(applied).entities[i]],
                        component |-> unwrap(unwrap(applied).simple[i])]
        /\ \A k \in 1..Len(applications.calls) : applications.calls[k].entity \in Mapped

\* An apply_in_world that dropped an id, added another and applied a value,
\* in a World that holds an entity of the client's own.
C30_Witness ==
    /\ is_some(applied)
    /\ applications.removed # {}
    /\ applications.created # {}
    /\ applications.calls # << >>
    /\ alive(ecs, 0) /\ 0 \notin Mapped

\* C40: remove(seq) evicts only the entry tagged seq: when the slot of seq is
\* empty or holds another sequence number the buffer is left as it was.
C40_RemoveOnlyTagged ==
    [][buffer_op'.kind = "remove" /\ ~contains(buffer, buffer_op'.seq) => buffer' = buffer]_vars

\* The value the reference holds for the id of entity i of the frame: none if
\* the reference does not list the id, or lists it without a value.
ReferenceValue(i) ==
    IF \E p \in 1..Len(delta_frame.entities) : delta_frame.entities[p] = frame.entities[i]
    THEN delta_frame.simple[CHOOSE p \in 1..Len(delta_frame.entities) :
                                delta_frame.entities[p] = frame.entities[i]]
    ELSE None

\* The code the classification gives entity i.
ClassifiedCode(i) ==
    IF ~is_some(frame.simple[i]) THEN NoComponent
    ELSE IF ~is_some(ReferenceValue(i)) THEN FullChange
    ELSE IF ReferenceValue(i) = frame.simple[i] THEN NoChange
    ELSE IF Simple_can_delta(unwrap(ReferenceValue(i)), unwrap(frame.simple[i]))
    THEN DeltaChange
    ELSE FullChange

\* The payload a code implies for entity i.
ImpliedPayload(i) ==
    IF CodeAt(i) = FullChange THEN Simple_write_full(unwrap(frame.simple[i]))
    ELSE IF CodeAt(i) = DeltaChange
    THEN Simple_write_delta(unwrap(ReferenceValue(i)), unwrap(frame.simple[i]))
    ELSE << >>

\* C31: the code written for an entity is NoComponent when its value is
\* absent; FullChange when the value is present and the reference has none for
\* the id; NoChange when the two are equal; DeltaChange when they differ and
\* can_delta holds; FullChange when they differ and it does not.  The payloads
\* after the codes are the ones the codes imply, entity by entity.
C31_Classification ==
    codec_op = "write_delta_frame" =>
        /\ \A i \in 1..Len(frame.entities) : CodeAt(i) = ClassifiedCode(i)
        /\ SubSeq(unwrap(wire), HeaderLength(TRUE) + 2 * Len(frame.entities) + 1, bits_written)
             = Flatten([i \in 1..Len(frame.entities) |-> ImpliedPayload(i)])

\* A delta encoding with a value that differs from its reference and is
\* delta-eligible next to one that differs and is not.
C31_Witness ==
    /\ codec_op = "write_delta_frame"
    /\ \E i, j \in 1..Len(frame.entities) :
          /\ CodeAt(i) = DeltaChange
          /\ CodeAt(j) = FullChange
          /\ is_some(ReferenceValue(j))

(***************************************************************************)
(* Properties of host and client over the transport.                       *)
(***************************************************************************)
\* The header of a message the host sent.
HeaderOf(payload) == read_frame_header(payload, 0).val

\* The client has acknowledged a tick and the host's buffer holds its frame.
ReferenceHeldByHost(last_ticks, frames) ==
    /\ ClientId \in DOMAIN last_ticks
    /\ is_some(get(frames, last_ticks[ClientId]))

\* C32: the bytes replicate returns carry the frame generated for the
\* current NetworkTick; they are a delta exactly when the client has an
\* acknowledged tick whose frame the host's buffer holds under that tick, and
\* then the delta is against that tick; otherwise they are a full frame.
C32_ReplicateChoice ==
    [][Len(link'.snapshots) = Len(link.snapshots) + 1 =>
          \E sent \in {link'.snapshots[Len(link'.snapshots)]} :
             /\ HeaderOf(sent).tick = network_tick'
             /\ read_frame(sent, server_buffer')
                  = [ok |-> TRUE, val |-> host'.produced[network_tick']]
             /\ is_some(HeaderOf(sent).delta_tick)
                  <=> ReferenceHeldByHost(host'.last_ticks, server_buffer')
             /\ ReferenceHeldByHost(host'.last_ticks, server_buffer') =>
                  HeaderOf(sent).delta_tick = Some(host'.last_ticks[ClientId])]_vars

\* The host has sent a delta and, later, with an acknowledged tick whose
\* frame its buffer has lost, a full frame.
C32_Witness ==
    /\ host.replicated = Some("Ok")
    /\ ClientId \in DOMAIN host.last_ticks
    /\ ~ReferenceHeldByHost(host.last_ticks, server_buffer)
    /\ ~is_some(HeaderOf(link.snapshots[Len(link.snapshots)]).delta_tick)
    /\ \E i \in 1..Len(link.snapshots) : is_some(HeaderOf(link.snapshots[i]).delta_tick)

\* C38: whenever the host has called replicate, the buffer held a frame
\* under the current NetworkTick: the unwrap in replicate did not panic.
C38_FramePresent == ~HostPanicked

\* C33: under any loss, duplication and reordering of the messages of both
\* channels, every frame in the receiver's ring buffer sits under its own
\* tick and equals, in entity list and field array, the frame the host
\* generated for that tick.
C33_Integrity ==
    \A i \in DOMAIN interpolation_buffer.buffer.data :
        \A held \in {interpolation_buffer.buffer.data[i]} :
            is_some(held) =>
                /\ interpolation_buffer.buffer.sequences[i] = Some(unwrap(held).tick)
                /\ unwrap(held).tick \in DOMAIN host.produced
                /\ unwrap(held) = host.produced[unwrap(held).tick]

\* The receiver holds a frame that the host only ever sent as a delta, so
\* it was reconstructed, and a message older than that frame arrived after it.
C33_Witness ==
    \E i \in DOMAIN interpolation_buffer.buffer.data :
        \E held \in {interpolation_buffer.buffer.data[i]} :
            /\ is_some(held)
            /\ \A j \in 1..Len(link.snapshots) :
                  HeaderOf(link.snapshots[j]).tick = unwrap(held).tick
                      => is_some(HeaderOf(link.snapshots[j]).delta_tick)
            /\ process_result = Some([ok |-> TRUE])
            /\ unwrap(last_received_tick) > unwrap(held).tick
            /\ \E other \in DOMAIN interpolation_buffer.buffer.data :
                  /\ is_some(interpolation_buffer.buffer.data[other])
                  /\ unwrap(interpolation_buffer.buffer.data[other]).tick
                        < unwrap(held).tick
                  /\ unwrap(held).simple # unwrap(interpolation_buffer.buffer.data[other]).simple

C39_LastReceivedIsMax ==
    [][/\ last_received_tick' =
             IF decoded_ticks' = {} THEN None
             ELSE Some(CHOOSE t \in decoded_ticks' : \A u \in decoded_ticks' : u <= t)
       /\ is_some(last_received_tick) =>
             /\ is_some(last_received_tick')
             /\ unwrap(last_received_tick') >= unwrap(last_received_tick)
       /\ last_received_tick' # last_received_tick =>
             \E held \in {get(interpolation_buffer'.buffer, unwrap(last_received_tick'))} :
                 /\ is_some(held)
                 /\ unwrap(held).tick = unwrap(last_received_tick')]_vars

\* Frames of several ticks were decoded and an older one, arriving after the
\* newest, has taken the newest one's slot.
C39_Witness ==
    /\ Cardinality(decoded_ticks) >= 2
    /\ is_some(last_received_tick)
    /\ ~is_some(get(interpolation_buffer.buffer, unwrap(last_received_tick)))
    /\ process_result = Some([ok |-> TRUE])

(***************************************************************************)
(* Properties of the ClientInfo receiver's playback.                       *)
(***************************************************************************)
\* C36: update_info never moves current_playback_time back, and
\* last_applied_tick never goes down: after the frame of a tick was applied no
\* later step applies the frame of a lower tick, whatever arrives in between.
C36_PlaybackForward ==
    [][/\ UpdateInfo => client_info'.current_playback_time
                            >= client_info.current_playback_time
       /\ is_some(client_info.last_applied_tick) =>
             /\ is_some(client_info'.last_applied_tick)
             /\ unwrap(client_info'.last_applied_tick)
                   >= unwrap(client_info.last_applied_tick)]_vars

\* C37: when both are set, last_applied_tick is at most last_received_tick,
\* and update_info finds the frame of the tick it selects in the buffer: the
\* unwrap of buffer.get(tick) does not panic.
C37_AppliedWithinReceived ==
    /\ ~Panicked
    /\ (is_some(client_info.last_applied_tick) /\ is_some(client_info.last_received_tick))
          => unwrap(client_info.last_applied_tick) <= unwrap(client_info.last_received_tick)

\* update_info has just applied a frame older than the newest received, with
\* both slots of the buffer taken.
C37_Witness ==
    /\ is_some(info_result)
    /\ unwrap(info_result).applies
    /\ is_some(client_info.last_applied_tick)
    /\ unwrap(client_info.last_applied_tick) < unwrap(client_info.last_received_tick)
    /\ \A i \in DOMAIN frame_buffer.data : is_some(frame_buffer.data[i])

(***************************************************************************)
(* Properties of the order of playback.                                    *)
(***************************************************************************)
\* C35: over any interleaving of add_snapshot and update with a clock that
\* does not go back, each frame update passes to apply_in_world has a tick
\* above that of the frame passed before: none is applied twice and none
\* older than one already applied, re-anchoring and late frames included.
C35_AppliedTicksIncrease ==
    [][(/\ is_some(applied)
        /\ is_some(update_result')
        /\ unwrap(update_result').applied
        /\ UpdateFrame)
          => unwrap(applied').tick > unwrap(applied).tick]_vars

\* An update that dropped a stale bracket, re-anchored and applied a frame,
\* with an older frame sitting in the buffer.
C35_Witness ==
    /\ is_some(update_result)
    /\ unwrap(update_result).applied
    /\ unwrap(update_result).stale
    /\ \E i \in DOMAIN interpolation_buffer.buffer.data :
          /\ is_some(interpolation_buffer.buffer.data[i])
          /\ unwrap(interpolation_buffer.buffer.data[i]).tick < unwrap(applied).tick

=============================================================================
